---- MODULE Spec2Model ----
(***************************************************************************)
(* The refresh state machine of CursorProvider                             *)
(* (src/CodingUsage/src/cursor/cursorApiService.ts, class CursorProvider)  *)
(* as driven by the commands and listeners of src/CodingUsage/src/         *)
(* extension.ts.  One provider instance; JavaScript's run-to-completion    *)
(* semantics makes every handler one atomic step up to its first await,    *)
(* and every continuation after an await one further atomic step.          *)
(* Time is not modelled: an armed timer may fire at any later step, and a  *)
(* vendor call may return, throw or never complete.                        *)
(***************************************************************************)
EXTENDS Integers, FiniteSets, Sequences, Bags, TLC

\* Bounds of the model (not program constants).
MaxChains == 2      \* fetch chains (suspended fetches, pending retries, pending click) at a time
MaxResponses == 1   \* distinct usage-summary payloads the vendor may return

\* Program constant: fetchData retries while retryCount < 3.
RETRY_LIMIT == 3

NoTimer == 0
Null == 0
\* The address readCachedEmailFromDbLocal finds for the logged-in account.
CachedEmail == 1
Responses == 1..MaxResponses

VARIABLES
    isRefreshing,       \* CursorProvider.isRefreshing
    isManualRefresh,    \* CursorProvider.isManualRefresh
    clickCount,         \* CursorProvider.clickCount
    clickTimer,         \* CursorProvider.clickTimer: a timer id or NoTimer
    fetchTimeoutTimer,  \* CursorProvider.fetchTimeoutTimer: a timer id or NoTimer
    liveClickTimers,    \* click-debounce timers armed in the event loop and not yet fired or cleared
    liveFetchTimers,    \* fetch-timeout timers armed and not yet fired or cleared
    retries,            \* bag of the anonymous retry timers armed by the catch branch of fetchData
    fetches,            \* bag of the fetchData invocations suspended at an await
    summaryData,        \* CursorProvider.summaryData (Null or a payload)
    primaryEmail,       \* CursorProvider.primaryEmail (Null or an address)
    statusBar,          \* what the status bar item shows
    disposed,           \* dispose() has run
    windowClicks,       \* history: handleStatusBarClick calls (2 = two or more) since the
                        \* pending debounce timer was armed
    out                 \* history of the last step: the command it dispatched (cmd), whether
                        \* it showed an error message (err), and whether it ended a fetch
                        \* cycle by timeout or by giving up (ev), for a cycle started by
                        \* refresh() ("manual") or otherwise ("auto")

\* The quota-blob parser (DatabaseReader) is a pure function of its input.
VARIABLES
    blob,               \* history: the pieces the input was put together from
    buffer,             \* the bytes handed to parseUserStatusProto, base64-decoded
    snapshot,           \* None before the call, then the one snapshot it returned
    again,              \* None, then the snapshot a second call on the same buffer returned
    legacy,             \* None, then the snapshot the pattern reader returned
    result              \* None, then what a call of one helper on the buffer returned

pvars == <<blob, buffer, snapshot, again, legacy, result>>

\* The background script of the browser extension (src/unnamed/part_001,
\* lines 1-203).  Time is counted in milliseconds.
VARIABLES
    extractionTimeout,  \* the global extractionTimeout: Null or the id of a timer
    liveTimeouts,       \* the timers armed by setTimeout and neither fired nor cleared
    time,               \* the time in milliseconds
    extractions,        \* history: calls of extractTraeSessionFromCookies so far
    burst               \* history: the ide_user_pay_status requests seen so far

evars == <<extractionTimeout, liveTimeouts, time, extractions, burst>>

\* The dashboard server (src/CodingUsageWeb/server.js).
VARIABLES
    apiKeyRows,         \* the rows of table vibe_usage_api_keys, in insertion order
    usageReports,       \* the number of rows of table vibe_usage_usage_reports
    calls               \* the POST requests received: route, key, position, response

svars == <<apiKeyRows, usageReports, calls>>

\* The packaging script (src/CodingUsage/src/cursor/cursorApiService.ts,
\* lines 1246-1357).
VARIABLES
    pkgJson,            \* the content of package.json
    pkgBackup,          \* None, or the content of package.json.backup
    script,             \* where the script's process is: position, target, pending signal
    original            \* history: the content package.json had before the first run

kvars == <<pkgJson, pkgBackup, script, original>>

\* The variables of the programs other than the provider and the parser.
ovars == <<evars, svars, kvars>>

\* No ide_user_pay_status request has been seen.
NoBurst == [requests |-> 0, last |-> 0, unbroken |-> TRUE]

\* The background script has been loaded and nothing has happened yet.
BackgroundInit ==
    /\ extractionTimeout = Null
    /\ liveTimeouts = {}
    /\ time = 0
    /\ extractions = 0
    /\ burst = NoBurst

\* The programs other than the provider and the parser are not under study.
\* The server has run init() on an empty database; no request has arrived.
ServerInit ==
    /\ apiKeyRows = <<>>
    /\ usageReports = 0
    /\ calls = <<>>

\* The packaging script has not been started.
NotStarted == [pc |-> "idle", target |-> "all", sigint |-> FALSE, via |-> "none"]

PackagingIdle ==
    /\ pkgJson = <<>>
    /\ pkgBackup = <<>>
    /\ script = NotStarted
    /\ original = <<>>

OthersIdle ==
    /\ BackgroundInit
    /\ ServerInit
    /\ PackagingIdle

vars == <<isRefreshing, isManualRefresh, clickCount, clickTimer, fetchTimeoutTimer,
          liveClickTimers, liveFetchTimers, retries, fetches, summaryData,
          statusBar, disposed, windowClicks, out, primaryEmail, blob, buffer,
          snapshot, again, legacy, result,
          ovars>>

\* A step that dispatches no command, shows no error and ends no cycle by force.
Quiet == [cmd |-> "none", err |-> FALSE, ev |-> "none", origin |-> "none"]
Dispatch(cmd) == [Quiet EXCEPT !.cmd = cmd]
Ended(ev, origin, err) == [Quiet EXCEPT !.ev = ev, !.origin = origin, !.err = err]
\* A step that logged something: the focus callback that it recovers
\* ("recovery"), submitCursorUsage that its submission failed ("relayFailed").
Noted(ev) == [Quiet EXCEPT !.ev = ev]

One(x) == SetToBag({x})

\* Chains the provider is running: the environment starts no further one
\* beyond MaxChains.
Load == BagCardinality(fetches) + BagCardinality(retries) + Cardinality(liveClickTimers)

\* The smallest positive id no record of S carries.
FreshId(S) == CHOOSE n \in 1..(Cardinality(S) + 1) : \A x \in S : x.id # n

----------------------------------------------------------------------------
\* Pieces of the handlers, as the code computes them.

\* clearFetchTimeout(): clearTimeout on the timer the field holds.
ClearFetchTimeout(live, field) == {t \in live : t.id # field}

\* fetchData line 700: the field's timer is cleared before a new one is armed.
ClearBeforeArm_NoClear(live, field) == live
ClearBeforeArm(live, field) == ClearFetchTimeout(live, field)

\* fetchData line 733: the catch branch schedules a retry while retryCount < 3.
ShouldRetry_OneMore(retryCount) == retryCount < RETRY_LIMIT + 1
ShouldRetry(retryCount) == retryCount < RETRY_LIMIT

\* handleStatusBarClick line 450: a click is dropped while refreshing.
ClickIgnored_Never(refreshing) == FALSE
ClickIgnored(refreshing) == refreshing

\* handleStatusBarClick line 462: the debounce callback refreshes on one click.
TimerDispatchesRefresh_Never(count) == FALSE
TimerDispatchesRefresh(count) == count = 1

\* resetRefreshState line 695: the value isRefreshing takes on a reset.
ResetIsRefreshing_Keep(refreshing) == refreshing
ResetIsRefreshing(refreshing) == FALSE

\* fetchData lines 703-707: the timeout callback resets the state first and
\* reads isManualRefresh afterwards.
TimeoutShowsError_ReadBefore(manualBefore, manualAfterReset) == manualBefore
TimeoutShowsError(manualBefore, manualAfterReset) == manualAfterReset

\* extension.ts line 148: the focus callback recovers if some provider is
\* in its refreshing state.
FocusRecovers_Always(someLoading) == TRUE
FocusRecovers(someLoading) == someLoading

\* showNotConfiguredStatus(): the item is hidden in show-all mode and shows
\* 'Not Logged In' otherwise.
ShowNotConfiguredStatus_Skip(bar, showAll) == bar
ShowNotConfiguredStatus(bar, showAll) == IF showAll THEN "hidden" ELSE "notLoggedIn"

\* TeamServerClient.submitCursorUsage catches whatever its body throws, so
\* the awaiting fetchCursorData goes on whether the submission succeeded.
RelaySwallowed_Propagate(ok) == ok
RelaySwallowed(ok) == TRUE

\* fetchData line 721: primaryEmail takes the cached address as soon as it is
\* read, before any vendor call is made.
EmailAfterRead(old, read) == read

\* updateStatusBar(): shows usage only once summary data exists.
UpdateStatusBar(bar, summary) == IF summary = Null THEN bar ELSE "usage"

\* fetchData up to its first await: clear the old timeout timer, arm a new
\* one, and suspend in readAccessTokenFromDb.
FetchDataStart(retryCount, origin, live, field, fs) ==
    LET cleared == ClearBeforeArm(live, field)
        tid == FreshId(cleared)
    IN  /\ liveFetchTimers' = cleared \cup {[id |-> tid, origin |-> origin]}
        /\ fetchTimeoutTimer' = tid
        /\ fetches' = fs (+) One([retryCount |-> retryCount, stage |-> "token",
                                  origin |-> origin, stale |-> FALSE])

\* Every suspended fetch belongs to a cycle that has now been force-reset.
Superseded(fs) ==
    LET Count(f) == IF f \in DOMAIN fs THEN fs[f] ELSE 0
    IN  [g \in {[f EXCEPT !.stale = TRUE] : f \in DOMAIN fs} |->
            Count(g) + Count([g EXCEPT !.stale = FALSE])]

----------------------------------------------------------------------------
\* The constructor has run: initialize() called updateStatusBar() and
\* fetchData(0), which armed the timeout timer and suspended.
ProviderInit ==
    /\ isRefreshing = FALSE
    /\ isManualRefresh = FALSE
    /\ clickCount = 0
    /\ clickTimer = NoTimer
    /\ liveClickTimers = {}
    /\ fetchTimeoutTimer = 1
    /\ liveFetchTimers = {[id |-> 1, origin |-> "auto"]}
    /\ retries = EmptyBag
    /\ fetches = One([retryCount |-> 0, stage |-> "token",
                      origin |-> "auto", stale |-> FALSE])
    /\ summaryData = Null
    /\ primaryEmail = Null
    /\ statusBar = "initial"
    /\ disposed = FALSE
    /\ windowClicks = 0
    /\ out = Quiet

\* The provider is running; the parser is not under study.
Init ==
    /\ ProviderInit
    /\ OthersIdle
    /\ blob = <<>>
    /\ buffer = <<>>
    /\ snapshot = <<>>
    /\ again = <<>>
    /\ legacy = <<>>
    /\ result = <<>>

\* refresh(): the cursorUsage.refresh command, or the debounce callback.
RefreshBody ==
    /\ isManualRefresh' = TRUE
    /\ isRefreshing' = TRUE
    /\ statusBar' = "loading"
    /\ FetchDataStart(0, "manual", liveFetchTimers, fetchTimeoutTimer, fetches)

\* The cursorUsage.refresh command: refresh().
Refresh ==
    /\ ~disposed
    /\ Load < MaxChains
    /\ RefreshBody
    /\ out' = Quiet
    /\ UNCHANGED <<clickCount, clickTimer, liveClickTimers, retries, summaryData,
                   disposed, windowClicks, primaryEmail, pvars, ovars>>

\* safeRefresh(): reset a refresh that may be stuck, then fetchData(0).
SafeRefreshBody ==
    /\ IF isRefreshing
         THEN /\ isManualRefresh' = FALSE
              /\ isRefreshing' = ResetIsRefreshing(isRefreshing)
              /\ FetchDataStart(0, "auto",
                                ClearFetchTimeout(liveFetchTimers, fetchTimeoutTimer),
                                NoTimer, Superseded(fetches))
         ELSE /\ UNCHANGED <<isManualRefresh, isRefreshing>>
              /\ FetchDataStart(0, "auto", liveFetchTimers, fetchTimeoutTimer, fetches)

\* The database monitor's callback (extension.ts line 69): safeRefresh().
SafeRefresh ==
    /\ ~disposed
    /\ Load < MaxChains
    /\ SafeRefreshBody
    /\ out' = Quiet
    /\ UNCHANGED <<clickCount, clickTimer, liveClickTimers, retries, summaryData,
                   statusBar, disposed, windowClicks, primaryEmail, pvars, ovars>>

\* The window-focus listener's delayed callback (extension.ts lines 146-152),
\* in a window where the other providers report peerLoading from
\* isInRefreshingState(): safeRefresh() on every provider if any is refreshing.
WindowFocusOf(peerLoading) ==
    /\ ~disposed
    /\ IF FocusRecovers(isRefreshing \/ peerLoading)
         THEN /\ Load < MaxChains
              /\ SafeRefreshBody
              /\ out' = Noted("recovery")
         ELSE /\ UNCHANGED <<isManualRefresh, isRefreshing, liveFetchTimers,
                             fetchTimeoutTimer, fetches>>
              /\ out' = Quiet
    /\ UNCHANGED <<clickCount, clickTimer, liveClickTimers, retries, summaryData,
                   statusBar, disposed, windowClicks, primaryEmail, pvars, ovars>>

WindowFocus == \E peerLoading \in BOOLEAN : WindowFocusOf(peerLoading)

\* handleStatusBarClick(): the status bar item's command.
Click ==
    /\ ~disposed
    /\ IF ClickIgnored(isRefreshing)
         THEN /\ UNCHANGED <<clickCount, clickTimer, liveClickTimers>>
              /\ windowClicks' = IF liveClickTimers # {} THEN 2 ELSE 0
              /\ out' = Quiet
         ELSE IF clickTimer # NoTimer
         THEN \* clickCount++, clearClickTimer(), then the settings command
              /\ liveClickTimers' = {t \in liveClickTimers : t.id # clickTimer}
              /\ clickTimer' = NoTimer
              /\ clickCount' = 0
              /\ windowClicks' = 0
              /\ out' = Dispatch("settings")
         ELSE \* clickCount++, arm the debounce timer
              /\ Load < MaxChains
              /\ clickCount' = clickCount + 1
              /\ clickTimer' = FreshId(liveClickTimers)
              /\ liveClickTimers' = liveClickTimers \cup {[id |-> FreshId(liveClickTimers)]}
              /\ windowClicks' = 1
              /\ out' = Quiet
    /\ UNCHANGED <<isRefreshing, isManualRefresh, fetchTimeoutTimer, liveFetchTimers,
                   retries, fetches, summaryData, statusBar, disposed, primaryEmail, pvars, ovars>>

\* The debounce timer's callback: refresh() on a single click, then clearClickTimer().
ClickTimerFire ==
    \E t \in liveClickTimers :
        /\ liveClickTimers' = {u \in liveClickTimers \ {t} : u.id # clickTimer}
        /\ clickTimer' = NoTimer
        /\ clickCount' = 0
        /\ windowClicks' = 0
        /\ IF TimerDispatchesRefresh(clickCount)
             THEN /\ RefreshBody
                  /\ out' = Dispatch("refresh")
             ELSE /\ UNCHANGED <<isManualRefresh, isRefreshing, statusBar,
                                 liveFetchTimers, fetchTimeoutTimer, fetches>>
                  /\ out' = Quiet
        /\ UNCHANGED <<retries, summaryData, disposed, primaryEmail, pvars, ovars>>

\* resetRefreshState().
ResetRefreshState ==
    /\ isManualRefresh' = FALSE
    /\ isRefreshing' = ResetIsRefreshing(isRefreshing)
    /\ liveFetchTimers' = ClearFetchTimeout(liveFetchTimers, fetchTimeoutTimer)
    /\ fetchTimeoutTimer' = NoTimer

\* The callback of fetch-timeout timer t (fetchData lines 701-708).
TimeoutOf(t) ==
    /\ isManualRefresh' = FALSE
    /\ isRefreshing' = ResetIsRefreshing(isRefreshing)
    /\ liveFetchTimers' = ClearFetchTimeout(liveFetchTimers \ {t}, fetchTimeoutTimer)
    /\ fetchTimeoutTimer' = NoTimer
    /\ statusBar' = UpdateStatusBar(statusBar, summaryData)
    /\ fetches' = Superseded(fetches)
    /\ out' = Ended("timeout", t.origin, TimeoutShowsError(isManualRefresh, FALSE))
    /\ UNCHANGED <<clickCount, clickTimer, liveClickTimers, retries, summaryData,
                   disposed, windowClicks, primaryEmail, pvars, ovars>>

FetchTimeoutFire == \E t \in liveFetchTimers : TimeoutOf(t)

\* The callback of retry timer r (fetchData line 734): fetchData(retryCount + 1).
RetryOf(r) ==
    /\ retries' = retries (-) One(r)
    /\ FetchDataStart(r.retryCount, r.origin, liveFetchTimers, fetchTimeoutTimer, fetches)
    /\ out' = Quiet
    /\ UNCHANGED <<isRefreshing, isManualRefresh, clickCount, clickTimer,
                   liveClickTimers, summaryData, statusBar, disposed, windowClicks,
                   primaryEmail, pvars, ovars>>

RetryFire == \E r \in BagToSet(retries) : RetryOf(r)

\* Fetch f moves on to stage s.
Advance(f, s) == (fetches (-) One(f)) (+) One([f EXCEPT !.stage = s])

\* readAccessTokenFromDb / constructSessionToken gave no token (lines 714-719),
\* with the show-all setting as showNotConfiguredStatus reads it.
TokenMissingOf(f, showAll) ==
    /\ f.stage = "token"
    /\ fetches' = fetches (-) One(f)
    /\ statusBar' = ShowNotConfiguredStatus(statusBar, showAll)
    /\ ResetRefreshState
    /\ out' = Quiet
    /\ UNCHANGED <<clickCount, clickTimer, liveClickTimers, retries, summaryData,
                   disposed, windowClicks, primaryEmail, pvars, ovars>>

TokenMissing == \E f \in BagToSet(fetches), showAll \in BOOLEAN : TokenMissingOf(f, showAll)

\* A token was read and then the cached address (line 721); the fetch goes on
\* to await fetchCursorUsageSummary (line 743).
TokenFoundOf(f) ==
    /\ f.stage = "token"
    /\ primaryEmail' = EmailAfterRead(primaryEmail, CachedEmail)
    /\ fetches' = Advance(f, "summary")
    /\ out' = Quiet
    /\ UNCHANGED <<isRefreshing, isManualRefresh, clickCount, clickTimer,
                   fetchTimeoutTimer, liveClickTimers, liveFetchTimers, retries,
                   summaryData, statusBar, disposed, windowClicks, pvars, ovars>>

TokenFound == \E f \in BagToSet(fetches) : TokenFoundOf(f)

\* fetchCursorUsageSummary returned payload r: lines 744-751 store the summary.
\* The recent-events and aggregated-usage calls that follow catch their own
\* errors (lines 753-767); the fetch then awaits the relay submission (line 769).
SummaryReturnsOf(f, r) ==
    /\ f.stage = "summary"
    /\ summaryData' = r
    /\ fetches' = Advance(f, "relay")
    /\ out' = Quiet
    /\ UNCHANGED <<isRefreshing, isManualRefresh, clickCount, clickTimer,
                   fetchTimeoutTimer, liveClickTimers, liveFetchTimers, retries,
                   statusBar, disposed, windowClicks, primaryEmail, pvars, ovars>>

SummaryReturns == \E f \in BagToSet(fetches), r \in Responses : SummaryReturnsOf(f, r)

\* The catch branch of fetchData (lines 730-739) for fetch f.
CatchBranch(f) ==
    /\ fetches' = fetches (-) One(f)
    /\ liveFetchTimers' = ClearFetchTimeout(liveFetchTimers, fetchTimeoutTimer)
    /\ fetchTimeoutTimer' = NoTimer
    /\ IF ShouldRetry(f.retryCount)
         THEN /\ retries' = retries (+) One([retryCount |-> f.retryCount + 1,
                                             origin |-> f.origin])
              /\ UNCHANGED <<isManualRefresh, isRefreshing, statusBar>>
              /\ out' = Quiet
         ELSE /\ isManualRefresh' = FALSE
              /\ isRefreshing' = ResetIsRefreshing(isRefreshing)
              /\ statusBar' = UpdateStatusBar(statusBar, summaryData)
              /\ UNCHANGED retries
              /\ out' = Ended("gaveUp", f.origin, FALSE)
    /\ UNCHANGED <<clickCount, clickTimer, liveClickTimers, summaryData, disposed,
                   windowClicks, primaryEmail, pvars, ovars>>

\* fetchCursorUsageSummary threw.
SummaryThrowsOf(f) ==
    /\ f.stage = "summary"
    /\ CatchBranch(f)

SummaryThrows == \E f \in BagToSet(fetches) : SummaryThrowsOf(f)

\* The awaited TeamServerClient.submitCursorUsage settled, its request having
\* succeeded (ok) or failed; the fetch goes on to fetchSecondaryAccountsData.
RelayReturnsOf(f, ok) ==
    /\ f.stage = "relay"
    /\ IF RelaySwallowed(ok)
         THEN /\ fetches' = Advance(f, "tail")
              /\ out' = IF ok THEN Quiet ELSE Noted("relayFailed")
              /\ UNCHANGED <<isRefreshing, isManualRefresh, fetchTimeoutTimer,
                             liveFetchTimers, retries, statusBar>>
         ELSE CatchBranch(f)
    /\ UNCHANGED <<clickCount, clickTimer, liveClickTimers, summaryData, disposed,
                   windowClicks, primaryEmail, pvars, ovars>>

RelayReturns == \E f \in BagToSet(fetches), ok \in BOOLEAN : RelayReturnsOf(f, ok)

\* The rest of fetchCursorData and fetchSecondaryAccountsData returned:
\* lines 727-729 clear the timer, reset the state and update the status bar.
TailReturnsOf(f) ==
    /\ f.stage = "tail"
    /\ fetches' = fetches (-) One(f)
    /\ ResetRefreshState
    /\ statusBar' = UpdateStatusBar(statusBar, summaryData)
    /\ out' = Quiet
    /\ UNCHANGED <<clickCount, clickTimer, liveClickTimers, retries, summaryData,
                   disposed, windowClicks, primaryEmail, pvars, ovars>>

TailReturns == \E f \in BagToSet(fetches) : TailReturnsOf(f)

\* dispose(): retryTimer is never assigned, so only the click timer and the
\* fetch-timeout timer are cleared.
Dispose ==
    /\ ~disposed
    /\ disposed' = TRUE
    /\ liveClickTimers' = {t \in liveClickTimers : t.id # clickTimer}
    /\ clickTimer' = NoTimer
    /\ clickCount' = 0
    /\ windowClicks' = 0
    /\ liveFetchTimers' = ClearFetchTimeout(liveFetchTimers, fetchTimeoutTimer)
    /\ fetchTimeoutTimer' = NoTimer
    /\ out' = Quiet
    /\ UNCHANGED <<isRefreshing, isManualRefresh, retries, fetches, summaryData,
                   statusBar, primaryEmail, pvars, ovars>>

Next ==
    \/ Refresh
    \/ SafeRefresh
    \/ WindowFocus
    \/ Click
    \/ ClickTimerFire
    \/ FetchTimeoutFire
    \/ RetryFire
    \/ TokenMissing
    \/ TokenFound
    \/ SummaryReturns
    \/ SummaryThrows
    \/ RelayReturns
    \/ TailReturns
    \/ Dispose

Spec == Init /\ [][Next]_vars

\* Every armed timer eventually fires; a vendor call may never return.
LiveSpec ==
    /\ Init
    /\ [][Next]_vars
    /\ WF_vars(FetchTimeoutFire)
    /\ WF_vars(RetryFire)
    /\ WF_vars(ClickTimerFire)

TypeOK ==
    /\ isRefreshing \in BOOLEAN
    /\ isManualRefresh \in BOOLEAN
    /\ clickCount \in 0..1
    /\ summaryData \in {Null} \cup Responses
    /\ disposed \in BOOLEAN
    /\ windowClicks \in 0..2
    /\ primaryEmail \in {Null, CachedEmail}
    /\ Load <= MaxChains + 1

----------------------------------------------------------------------------
(***************************************************************************)
(* The quota-blob parser: class DatabaseReader (src/unnamed/part_002,      *)
(* lines 458-800).  A buffer is a sequence of bytes 0..255; offsets are    *)
(* counted from 0 as in the code.  An optional value (T | undefined) is    *)
(* the empty sequence or a one-element sequence.                           *)
(***************************************************************************)
None == <<>>
Some(x) == <<x>>

\* Bounds of the parser's inputs (not program constants).
MaxFields == 2      \* fields in the quota sub-message of an input

\* Program constants.
QUOTA_TAG == 122            \* 0x7a: field 15, wire type 2
SEARCH_WINDOW == 500        \* bytes after the label searched for QUOTA_TAG
VARINT_SHIFT_LIMIT == 35    \* readVarintTuple reads while shift < 35
TS_MIN == 1704067200        \* sanity range of a reset timestamp (exclusive)
TS_MAX == 1900000000

\* The known model labels, in the order of modelPatterns and modelLabels.
labelNames ==
    << "Claude Opus 4.5 (Thinking)", "Claude Sonnet 4.5 (Thinking)",
       "Claude Sonnet 4.5", "Gemini 3 Pro (High)", "Gemini 3 Pro (Low)",
       "Gemini 3 Flash", "GPT-OSS 120B (Medium)" >>

\* The same labels as the bytes of the binary string.
modelLabels ==
    << <<67, 108, 97, 117, 100, 101, 32, 79, 112, 117, 115, 32, 52, 46, 53, 32,
         40, 84, 104, 105, 110, 107, 105, 110, 103, 41>>,
       <<67, 108, 97, 117, 100, 101, 32, 83, 111, 110, 110, 101, 116, 32, 52, 46,
         53, 32, 40, 84, 104, 105, 110, 107, 105, 110, 103, 41>>,
       <<67, 108, 97, 117, 100, 101, 32, 83, 111, 110, 110, 101, 116, 32, 52, 46,
         53>>,
       <<71, 101, 109, 105, 110, 105, 32, 51, 32, 80, 114, 111, 32, 40, 72, 105,
         103, 104, 41>>,
       <<71, 101, 109, 105, 110, 105, 32, 51, 32, 80, 114, 111, 32, 40, 76, 111,
         119, 41>>,
       <<71, 101, 109, 105, 110, 105, 32, 51, 32, 70, 108, 97, 115, 104>>,
       <<71, 80, 84, 45, 79, 83, 83, 32, 49, 50, 48, 66, 32, 40, 77, 101, 100, 105,
         117, 109, 41>> >>

\* buffer[i]: undefined outside the buffer, which the bit operations of the
\* code take as 0.
ByteAt(buf, i) == IF i >= 0 /\ i < Len(buf) THEN buf[i + 1] ELSE 0

\* pat occurs in buf at offset i.
OccursAt(buf, pat, i) ==
    /\ i >= 0
    /\ i + Len(pat) <= Len(buf)
    /\ \A j \in 1..Len(pat) : buf[i + j] = pat[j]

\* str.indexOf(label): the first offset where pat occurs, or -1.
IndexOf(buf, pat) ==
    LET occ == {i \in 0..(Len(buf) - Len(pat)) : OccursAt(buf, pat, i)}
    IN  IF occ = {} THEN -1 ELSE CHOOSE i \in occ : \A j \in occ : i <= j

\* value |= group << shift on 32-bit signed integers, for a 7-bit group and
\* a value that fits below the shift: bits shifted past bit 31 are lost and
\* bit 31 is the sign.
OrShifted(value, group, shift) ==
    IF shift < 28
      THEN value + group * (2 ^ shift)
      ELSE LET kept == group % 16
               low == value + (kept % 8) * (2 ^ 28)
           IN  IF kept >= 8 THEN (low - 2 ^ 30) - 2 ^ 30 ELSE low

\* readVarintTuple line 756: shift < 35, true of the shifts 0, 7, 14, 21, 28.
WithinShiftLimit_Six(shift) == shift < VARINT_SHIFT_LIMIT + 7
WithinShiftLimit(shift) == shift < VARINT_SHIFT_LIMIT

\* readVarintTuple(buffer, offset): the loop from byte i on.
RECURSIVE VarintLoop(_, _, _, _, _)
VarintLoop(buf, offset, i, shift, value) ==
    IF i < Len(buf) /\ WithinShiftLimit(shift)
      THEN LET byte == ByteAt(buf, i)
               v == OrShifted(value, byte % 128, shift)
           IN  IF byte < 128
                 THEN [value |-> v, bytesRead |-> (i + 1) - offset]
                 ELSE VarintLoop(buf, offset, i + 1, shift + 7, v)
      ELSE [value |-> value, bytesRead |-> i - offset]

ReadVarintTuple(buf, offset) == VarintLoop(buf, offset, offset, 0, 0)

\* tag & 0x07 and tag >>> 3 on a 32-bit value.
WireType(tag) == tag % 8
FieldNum(tag) == IF tag >= 0 THEN tag \div 8 ELSE 2 ^ 29 + (tag \div 8)

\* skipField(buffer, ptr, wireType): the offset after the field, or -1.
SkipField(buf, ptr, wireType) ==
    CASE wireType = 0 -> ptr + ReadVarintTuple(buf, ptr).bytesRead
      [] wireType = 1 -> ptr + 8
      [] wireType = 2 -> LET len == ReadVarintTuple(buf, ptr)
                         IN  ptr + len.bytesRead + len.value
      [] wireType = 5 -> ptr + 4
      [] OTHER -> -1

----------------------------------------------------------------------------
\* An IEEE 754 single: sign, biased exponent (0..255) and fraction (23 bits).
Float(neg, exp, man) == [neg |-> neg, exp |-> exp, man |-> man]
FloatZero == Float(FALSE, 0, 0)

\* buffer.readFloatLE(ptr): the four bytes, least significant first.
ReadFloatLE_BigEndian(buf, ptr) ==
    LET b3 == ByteAt(buf, ptr)
        b2 == ByteAt(buf, ptr + 1)
        b1 == ByteAt(buf, ptr + 2)
        b0 == ByteAt(buf, ptr + 3)
    IN  Float(b3 >= 128, (b3 % 128) * 2 + (b2 \div 128),
              (b2 % 128) * 65536 + b1 * 256 + b0)
ReadFloatLE(buf, ptr) ==
    LET b0 == ByteAt(buf, ptr)
        b1 == ByteAt(buf, ptr + 1)
        b2 == ByteAt(buf, ptr + 2)
        b3 == ByteAt(buf, ptr + 3)
    IN  Float(b3 >= 128, (b3 % 128) * 2 + (b2 \div 128),
              (b2 % 128) * 65536 + b1 * 256 + b0)

\* Comparisons of a single with 0 and with 1; every comparison with NaN is false.
IsNaN(f) == f.exp = 255 /\ f.man # 0
GeZero(f) == ~IsNaN(f) /\ (~f.neg \/ (f.exp = 0 /\ f.man = 0))
LeOne(f) == ~IsNaN(f) /\ (f.neg \/ f.exp < 127 \/ (f.exp = 127 /\ f.man = 0))
\* remainingFraction === 0 (true of -0 as well).
IsZero(f) == f.exp = 0 /\ f.man = 0

\* parseInnerQuotaMessage line 677: remainingFraction >= 0 && remainingFraction <= 1.
InUnit(f) == GeZero(f) /\ LeOne(f)

\* parseInnerQuotaMessage lines 676-681: what remainingFraction holds after
\* a float field.
AcceptFraction_Clamp(f) ==
    IF InUnit(f) THEN Some(f)
    ELSE IF f.neg THEN Some(FloatZero) ELSE Some(Float(FALSE, 127, 0))
AcceptFraction(f) == IF InUnit(f) THEN Some(f) ELSE None

\* A Date, as whole seconds and milliseconds since the epoch.
Date(s, ms) == [s |-> s, ms |-> ms]

\* parseResetTimeMessage line 718: the sanity check of a timestamp.
TimestampSane(ts) == ts > TS_MIN /\ ts < TS_MAX

\* parseResetTimeMessage line 719: new Date(ts * 1000), ts in seconds.
DateOfSeconds_AsMillis(ts) == Date(ts \div 1000, ts % 1000)
DateOfSeconds(ts) == Date(ts, 0)

----------------------------------------------------------------------------
\* Lines 698 and 723: newPtr === -1 || newPtr > end, on which a walk stops.
WalkStops_OnlyPastEnd(newPtr, end) == newPtr > end
WalkStops(newPtr, end) == newPtr = -1 \/ newPtr > end

\* The two field walks below choose their next cursor from the buffer and
\* the cursor alone, so a walk that comes back to a cursor it has been at
\* never ends: seen holds the cursors the walk has been at, and loops tells
\* that it came back to one.

\* parseResetTimeMessage(buffer, start, end): the loop from ptr on; rt is
\* the Date returned, if the loop ends.
RECURSIVE ResetTimeLoop(_, _, _, _)

\* Lines 714-720, with ts the varint read at p.
ResetTimeField(buf, p, end, seen, ts) ==
    IF TimestampSane(ts.value)
      THEN [rt |-> Some(DateOfSeconds(ts.value)), loops |-> FALSE]
      ELSE ResetTimeLoop(buf, p + ts.bytesRead, end, seen)

\* Lines 721-725, with newPtr what skipField returned.
ResetTimeSkip(buf, end, seen, newPtr) ==
    IF WalkStops(newPtr, end)
      THEN [rt |-> None, loops |-> FALSE]
      ELSE ResetTimeLoop(buf, newPtr, end, seen)

\* Lines 709-726, with tag the varint read at ptr.
ResetTimeStep(buf, ptr, end, seen, tag) ==
    IF FieldNum(tag.value) = 1 /\ WireType(tag.value) = 0
      THEN ResetTimeField(buf, ptr + tag.bytesRead, end, seen,
                          ReadVarintTuple(buf, ptr + tag.bytesRead))
      ELSE ResetTimeSkip(buf, end, seen,
                         SkipField(buf, ptr + tag.bytesRead, WireType(tag.value)))

ResetTimeLoop(buf, ptr, end, seen) ==
    IF ptr >= end THEN [rt |-> None, loops |-> FALSE]
    ELSE IF ptr \in seen THEN [rt |-> None, loops |-> TRUE]
    ELSE ResetTimeStep(buf, ptr, end, seen \cup {ptr}, ReadVarintTuple(buf, ptr))

ParseResetTimeMessage(buf, start, end) == ResetTimeLoop(buf, start, end, {})

\* parseInnerQuotaMessage(buffer, start, end): the loop from ptr on, with
\* acc holding remainingFraction, resetTime and foundAny.
RECURSIVE InnerLoop(_, _, _, _, _)

\* Lines 675-683, with f the single read at p.
InnerFloat(buf, p, end, acc, seen, f) ==
    InnerLoop(buf, p + 4, end,
              [acc EXCEPT !.remainingFraction = AcceptFraction(f),
                          !.found = acc.found \/ InUnit(f)],
              seen)

\* Lines 688-694, with parsed what parseResetTimeMessage came to.
InnerReset(buf, innerEnd, end, acc, seen, parsed) ==
    IF parsed.loops THEN [acc EXCEPT !.loops = TRUE]
    ELSE IF parsed.rt # None
      THEN InnerLoop(buf, innerEnd, end,
                     [acc EXCEPT !.resetTime = parsed.rt, !.found = TRUE], seen)
      ELSE InnerLoop(buf, innerEnd, end, acc, seen)

\* Lines 685-695, with innerLen the varint read at p.
InnerNested(buf, p, end, acc, seen, innerLen) ==
    IF p + innerLen.bytesRead + innerLen.value <= end
      THEN InnerReset(buf, p + innerLen.bytesRead + innerLen.value, end, acc, seen,
                      ParseResetTimeMessage(buf, p + innerLen.bytesRead,
                                            p + innerLen.bytesRead + innerLen.value))
      ELSE acc

\* Lines 696-700, with newPtr what skipField returned.
InnerSkip(buf, end, acc, seen, newPtr) ==
    IF WalkStops(newPtr, end)
      THEN acc
      ELSE InnerLoop(buf, newPtr, end, acc, seen)

\* Lines 668-701, with tag the varint read at ptr.
InnerStep(buf, ptr, end, acc, seen, tag) ==
    IF FieldNum(tag.value) = 1 /\ WireType(tag.value) = 5
      THEN IF ptr + tag.bytesRead + 4 <= end
             THEN InnerFloat(buf, ptr + tag.bytesRead, end, acc, seen,
                             ReadFloatLE(buf, ptr + tag.bytesRead))
             ELSE acc
    ELSE IF FieldNum(tag.value) = 2 /\ WireType(tag.value) = 2
      THEN InnerNested(buf, ptr + tag.bytesRead, end, acc, seen,
                       ReadVarintTuple(buf, ptr + tag.bytesRead))
      ELSE InnerSkip(buf, end, acc, seen,
                     SkipField(buf, ptr + tag.bytesRead, WireType(tag.value)))

InnerLoop(buf, ptr, end, acc, seen) ==
    IF ptr >= end THEN acc
    ELSE IF ptr \in seen THEN [acc EXCEPT !.loops = TRUE]
    ELSE InnerStep(buf, ptr, end, acc, seen \cup {ptr}, ReadVarintTuple(buf, ptr))

ParseInnerQuotaMessage(buf, start, end) ==
    InnerLoop(buf, start, end,
              [remainingFraction |-> None, resetTime |-> None, found |-> FALSE,
               loops |-> FALSE],
              {})

\* parseQuotaFields lines 637-640: a reset time without a fraction means the
\* quota is used up (the default value 0 is omitted on the wire).
DefaultFraction_None(remainingFraction, resetTime) == remainingFraction
DefaultFraction(remainingFraction, resetTime) ==
    IF remainingFraction = None /\ resetTime # None
      THEN Some(FloatZero)
      ELSE remainingFraction

\* parseQuotaFields lines 635-646: what a sub-message that parsed with
\* found = true records for the label, if anything; the search ends there.
QuotaOf(parsed) ==
    LET fraction == DefaultFraction(parsed.remainingFraction, parsed.resetTime)
    IN  IF fraction # None \/ parsed.resetTime # None
          THEN Some([remainingFraction |-> fraction, resetTime |-> parsed.resetTime,
                     loops |-> FALSE])
          ELSE None

\* The search reached a sub-message on which parseInnerQuotaMessage never
\* returns.
Looping == Some([remainingFraction |-> None, resetTime |-> None, loops |-> TRUE])

\* parseQuotaFields lines 624-654: the search for a quota sub-message from
\* searchPtr on; the quota to record for the label, if any.
RECURSIVE SearchLoop(_, _, _)

\* Lines 633-647, with parsed the result of parseInnerQuotaMessage on the
\* candidate at searchPtr.
SearchParsed(buf, searchPtr, searchLimit, parsed) ==
    IF parsed.loops THEN Looping
    ELSE IF parsed.found
      THEN QuotaOf(parsed)
      ELSE SearchLoop(buf, searchPtr + 1, searchLimit)

\* Lines 628-632, with msgLen the varint read after the tag at searchPtr.
SearchCandidate(buf, searchPtr, searchLimit, msgLen) ==
    LET msgStart == searchPtr + 1 + msgLen.bytesRead
    IN  IF msgStart + msgLen.value <= Len(buf)
          THEN SearchParsed(buf, searchPtr, searchLimit,
                            ParseInnerQuotaMessage(buf, msgStart,
                                                   msgStart + msgLen.value))
          ELSE SearchLoop(buf, searchPtr + 1, searchLimit)

\* Lines 624-626 and 653: searchPtr++ until the byte at searchPtr is the
\* quota tag; the offsets below searchLimit at which the loop stops to look.
TagOffsets(buf, searchPtr, searchLimit) ==
    {p \in searchPtr..(searchLimit - 1) : ByteAt(buf, p) = QUOTA_TAG}

Least(offsets) == CHOOSE p \in offsets : \A q \in offsets : p <= q

SearchLoop(buf, searchPtr, searchLimit) ==
    LET tags == TagOffsets(buf, searchPtr, searchLimit)
    IN  IF tags = {} THEN None
        ELSE SearchCandidate(buf, Least(tags), searchLimit,
                             ReadVarintTuple(buf, Least(tags) + 1))

Min(a, b) == IF a <= b THEN a ELSE b

\* parseQuotaFields(buffer): quotaMap.get(label) for the k-th known label.
ParseQuotaFields(buf, k) ==
    LET idx == IndexOf(buf, modelLabels[k])
        searchPtr == idx + Len(modelLabels[k])
    IN  IF idx = -1
          THEN None
          ELSE SearchLoop(buf, searchPtr, Min(Len(buf), searchPtr + SEARCH_WINDOW))

\* extractModelQuotas lines 549-567: pattern.test(str) for the k-th pattern;
\* the third one is /Claude Sonnet 4\.5(?! \()/.
Detected_Prefix(buf, k) ==
    \E i \in 0..Len(buf) : OccursAt(buf, SubSeq(modelLabels[k], 1, 6), i)
Detected(buf, k) ==
    \E i \in 0..Len(buf) :
        /\ OccursAt(buf, modelLabels[k], i)
        /\ k = 3 => ~OccursAt(buf, <<32, 40>>, i + Len(modelLabels[k]))

\* extractModelQuotas line 577: label.toLowerCase().replace(/[^a-z0-9]/g, '-'),
\* one character at a time.
ToLowerCase(c) == IF c >= 65 /\ c <= 90 THEN c + 32 ELSE c
IsSlugChar(c) == (c >= 97 /\ c <= 122) \/ (c >= 48 /\ c <= 57)
ReplaceOther_Strip(c) == IF IsSlugChar(c) THEN <<c>> ELSE <<>>
ReplaceOther(c) == IF IsSlugChar(c) THEN <<c>> ELSE <<45>>

RECURSIVE ModelId(_)
ModelId(label) ==
    IF label = <<>> THEN <<>>
    ELSE ReplaceOther(ToLowerCase(Head(label))) \o ModelId(Tail(label))

\* resetTime.getTime() - Date.now(): a number of milliseconds, kept as whole
\* seconds (rounded down) and the 0..999 milliseconds above them.
MsBetween(later, earlier) ==
    IF later.ms >= earlier.ms
      THEN [s |-> later.s - earlier.s, ms |-> later.ms - earlier.ms]
      ELSE [s |-> later.s - earlier.s - 1, ms |-> later.ms - earlier.ms + 1000]
ZeroMs == [s |-> 0, ms |-> 0]

\* formatTimeUntilReset(ms), lines 788-799: the text, as its pattern and
\* the two numbers put into it.
Text(pattern, a, b) == [pattern |-> pattern, a |-> a, b |-> b]
FormatTimeUntilReset(d) ==
    LET seconds == d.s
        minutes == seconds \div 60
        hours == minutes \div 60
        days == hours \div 24
    IN  IF d.s < 0 \/ d = ZeroMs THEN Text("Unknown", 0, 0)
        ELSE IF days > 0 THEN Text("{a}d{b}h", days, hours % 24)
        ELSE IF hours > 0 THEN Text("{a}h {b}m", hours, minutes % 60)
        ELSE IF minutes > 0 THEN Text("{a}m {b}s", minutes, seconds % 60)
        ELSE Text("{a}s", seconds, 0)

\* extractModelQuotas lines 588-590: quota?.resetTime ? ... - Date.now() : 0.
TimeUntilReset(reset, now) ==
    IF reset # None THEN MsBetween(reset[1], now) ELSE ZeroMs

\* extractModelQuotas line 587: quota?.resetTime || new Date().
ResetTimeOrNow(reset, now) == IF reset # None THEN reset[1] ELSE now

\* extractModelQuotas lines 573-593: the entry pushed for the k-th label when
\* detected, with quota = quotaInfo.get(label).  remainingPercentage, the
\* fraction times 100, is left out.
EntryOf(k, quota, now) ==
    LET fraction == IF quota = None THEN None ELSE quota[1].remainingFraction
        reset == IF quota = None THEN None ELSE quota[1].resetTime
    IN  [label |-> labelNames[k],
         modelId |-> ModelId(modelLabels[k]),
         remainingFraction |-> fraction,
         isExhausted |-> fraction # None /\ IsZero(fraction[1]),
         resetTime |-> ResetTimeOrNow(reset, now),
         timeUntilReset |-> TimeUntilReset(reset, now),
         timeUntilResetFormatted |-> FormatTimeUntilReset(TimeUntilReset(reset, now))]

ModelEntry(buf, k, now) == EntryOf(k, ParseQuotaFields(buf, k), now)

\* extractModelQuotas(buffer), read at the instant now.
ExtractModelQuotas(buf, now) ==
    LET IsDetected(k) == Detected(buf, k)
        detectedModels == SelectSeq(<<1, 2, 3, 4, 5, 6, 7>>, IsDetected)
    IN  [i \in 1..Len(detectedModels) |-> ModelEntry(buf, detectedModels[i], now)]

\* extractPlanName lines 771-776: the patterns, in the order they are tried:
\* Google AI Pro, Google AI Ultra, g1-pro-tier, g1-ultra-tier.
planPatterns ==
    << <<71, 111, 111, 103, 108, 101, 32, 65, 73, 32, 80, 114, 111>>,
       <<71, 111, 111, 103, 108, 101, 32, 65, 73, 32, 85, 108, 116, 114, 97>>,
       <<103, 49, 45, 112, 114, 111, 45, 116, 105, 101, 114>>,
       <<103, 49, 45, 117, 108, 116, 114, 97, 45, 116, 105, 101, 114>> >>

\* match[0].includes('Ultra') for a match of the pattern pat.
IncludesUltra(pat) == IndexOf(pat, <<85, 108, 116, 114, 97>>) # -1

\* extractPlanName lines 778-783: the first pattern of planPatterns from the
\* k-th on that matches decides.
RECURSIVE PlanLoop(_, _)
PlanLoop(buf, k) ==
    IF k > Len(planPatterns) THEN None
    ELSE IF IndexOf(buf, planPatterns[k]) # -1
      THEN IF IncludesUltra(planPatterns[k])
             THEN Some("Google AI Ultra")
             ELSE Some("Google AI Pro")
      ELSE PlanLoop(buf, k + 1)

ExtractPlanName(buf) == PlanLoop(buf, 1)

\* parseUserStatusProto(base64Data) on the decoded bytes, when it returns.
ParseUserStatusProto(buf, now) ==
    [timestamp |-> now,
     models |-> ExtractModelQuotas(buf, now),
     planName |-> ExtractPlanName(buf)]

\* parseQuotaFields walks the sub-messages of every known label that is in
\* the buffer before any entry is built: if one walk never ends, the call
\* never returns.
NeverReturns(buf) == \E k \in DOMAIN modelLabels : ParseQuotaFields(buf, k) = Looping

\* What a call leaves its caller with: the snapshot, or nothing ever.
NoReturn == <<"no", "return">>
Returned(r) == Len(r) = 1
Outcome(buf, now) ==
    IF NeverReturns(buf) THEN NoReturn ELSE Some(ParseUserStatusProto(buf, now))

----------------------------------------------------------------------------
\* The reader of src/CodingUsage/src/antigravity/databaseReader.ts, which
\* looks for two fixed byte patterns after the label instead of walking the
\* sub-message.  Its extractModelQuotas, extractPlanName and
\* parseUserStatusProto read as the ones above.
LEGACY_WINDOW == 100        \* bytes after the label that are searched

\* readVarint(buffer, offset), lines 185-199: the loop from byte i on.
RECURSIVE LegacyVarintLoop(_, _, _, _)
LegacyVarintLoop(buf, i, shift, value) ==
    IF i < Len(buf) /\ shift < VARINT_SHIFT_LIMIT
      THEN IF ByteAt(buf, i) < 128
             THEN OrShifted(value, ByteAt(buf, i) % 128, shift)
             ELSE LegacyVarintLoop(buf, i + 1, shift + 7,
                                   OrShifted(value, ByteAt(buf, i) % 128, shift))
      ELSE value

LegacyReadVarint(buf, offset) == LegacyVarintLoop(buf, offset, 0, 0)

\* Lines 148-161: the first 0x7a 0x0d 0x0d from i on followed by a single
\* in [0,1].
RECURSIVE LegacyFractionScan(_, _, _)
LegacyFractionScan(buf, i, searchEnd) ==
    IF i >= searchEnd - 6 THEN None
    ELSE IF OccursAt(buf, <<QUOTA_TAG, 13, 13>>, i) /\ InUnit(ReadFloatLE(buf, i + 3))
      THEN Some(ReadFloatLE(buf, i + 3))
      ELSE LegacyFractionScan(buf, i + 1, searchEnd)

\* Lines 165-174: the first 0x12 0x06 0x08 from i on followed by a varint in
\* the sanity range.
RECURSIVE LegacyResetScan(_, _, _)
LegacyResetScan(buf, i, searchEnd) ==
    IF i >= searchEnd - 8 THEN None
    ELSE IF OccursAt(buf, <<18, 6, 8>>, i) /\ TimestampSane(LegacyReadVarint(buf, i + 3))
      THEN Some(DateOfSeconds(LegacyReadVarint(buf, i + 3)))
      ELSE LegacyResetScan(buf, i + 1, searchEnd)

\* Lines 176-178: the map entry, set when either value was found.
LegacyQuota(remainingFraction, resetTime) ==
    IF remainingFraction # None \/ resetTime # None
      THEN Some([remainingFraction |-> remainingFraction, resetTime |-> resetTime])
      ELSE None

\* Lines 140-178, with searchStart the offset after the label.
LegacySearch(buf, searchStart, searchEnd) ==
    LegacyQuota(LegacyFractionScan(buf, searchStart, searchEnd),
                LegacyResetScan(buf, searchStart, searchEnd))

\* parseQuotaFields(buffer), lines 121-183: quotaMap.get(label) for the k-th
\* known label.
LegacyParseQuotaFields(buf, k) ==
    LET idx == IndexOf(buf, modelLabels[k])
        searchStart == idx + Len(modelLabels[k])
    IN  IF idx = -1
          THEN None
          ELSE LegacySearch(buf, searchStart, Min(Len(buf), searchStart + LEGACY_WINDOW))

\* extractModelQuotas(buffer), lines 67-120.
LegacyExtractModelQuotas(buf, now) ==
    LET IsDetected(k) == Detected(buf, k)
        detectedModels == SelectSeq(<<1, 2, 3, 4, 5, 6, 7>>, IsDetected)
    IN  [i \in 1..Len(detectedModels) |->
            EntryOf(detectedModels[i],
                    LegacyParseQuotaFields(buf, detectedModels[i]), now)]

\* parseUserStatusProto(base64Data), lines 47-65.
LegacyParseUserStatusProto(buf, now) ==
    [timestamp |-> now,
     models |-> LegacyExtractModelQuotas(buf, now),
     planName |-> ExtractPlanName(buf)]

----------------------------------------------------------------------------
\* The inputs of the parser: a known label, a few bytes of other fields,
\* and a quota sub-message (QUOTA_TAG, length, fields) as Antigravity's
\* protobuf writer lays it out.

\* Singles: 0, -0, 0.5, 1, the next single above 1, -0.5 and a NaN.
FloatNegZero == Float(TRUE, 0, 0)
FloatHalf == Float(FALSE, 126, 0)
FloatOne == Float(FALSE, 127, 0)
FloatAboveOne == Float(FALSE, 127, 1)
FloatNegHalf == Float(TRUE, 126, 0)
FloatNaN == Float(FALSE, 255, 4194304)
UnitFloats == {FloatZero, FloatNegZero, FloatHalf, FloatOne}
OtherFloats == {FloatAboveOne, FloatNegHalf, FloatNaN}

\* Timestamps inside the open range (1704067200, 1900000000), and its ends.
SaneTimestamps == {1704067201, 1899999999}
OtherTimestamps == {1704067200, 1900000000}

FloatField(f) == [kind |-> "float", f |-> f, ts |-> 0]
ResetField(ts) == [kind |-> "reset", f |-> FloatZero, ts |-> ts]
VarintField == [kind |-> "varint", f |-> FloatZero, ts |-> 0]
BytesField == [kind |-> "bytes", f |-> FloatZero, ts |-> 0]

Fields ==
    {FloatField(f) : f \in UnitFloats \cup OtherFloats}
        \cup {ResetField(ts) : ts \in SaneTimestamps \cup OtherTimestamps}
        \cup {VarintField, BytesField}

\* The labels the inputs use, and what stands between label and sub-message
\* (nothing, or field 2 holding the varint 1).
LabelChoices == {2, 3, 6}
Gaps == {<<>>, <<16, 1>>}

Blobs ==
    [label : LabelChoices, gap : Gaps,
     fields : UNION {[1..n -> Fields] : n \in 0..MaxFields}]

\* The instant new Date() yields during the parse, and during a later one.
Clock == {Date(1750000000, 500)}
LaterClock == {Date(1750000060, 250)}

\* A non-negative integer as a protobuf varint.
RECURSIVE VarintBytes(_)
VarintBytes(n) ==
    IF n < 128 THEN <<n>> ELSE <<128 + (n % 128)>> \o VarintBytes(n \div 128)

\* A single as its four bytes, least significant first.
FloatLE(f) ==
    << f.man % 256, (f.man \div 256) % 256,
       (f.exp % 2) * 128 + (f.man \div 65536),
       (IF f.neg THEN 128 ELSE 0) + (f.exp \div 2) >>

\* A field of the quota sub-message on the wire: field 1 as a 32-bit value
\* (tag 0x0d), field 2 as a message holding field 1 as a varint (tags 0x12,
\* 0x08), field 3 as a varint (tag 0x18), field 4 as two bytes (tag 0x22).
EncodeField(fd) ==
    CASE fd.kind = "float" -> <<13>> \o FloatLE(fd.f)
      [] fd.kind = "reset" ->
            LET inner == <<8>> \o VarintBytes(fd.ts)
            IN  <<18>> \o VarintBytes(Len(inner)) \o inner
      [] fd.kind = "varint" -> <<24, 5>>
      [] fd.kind = "bytes" -> <<34, 2, 13, 0>>

RECURSIVE EncodeFields(_)
EncodeFields(fds) ==
    IF fds = <<>> THEN <<>> ELSE EncodeField(Head(fds)) \o EncodeFields(Tail(fds))

EncodeBlob(b) ==
    LET body == EncodeFields(b.fields)
    IN  modelLabels[b.label] \o b.gap \o <<QUOTA_TAG>> \o VarintBytes(Len(body)) \o body

\* The provider's variables, which the parser leaves alone.
cvars == <<isRefreshing, isManualRefresh, clickCount, clickTimer, fetchTimeoutTimer,
           liveClickTimers, liveFetchTimers, retries, fetches, summaryData,
           statusBar, disposed, windowClicks, out, primaryEmail>>

\* Any input, not yet parsed.
ParserInit ==
    /\ ProviderInit
    /\ OthersIdle
    /\ blob \in Blobs
    /\ buffer = EncodeBlob(blob)
    /\ snapshot = None
    /\ again = None
    /\ legacy = None
    /\ result = None

\* parseUserStatusProto(base64Data) runs on the buffer.
ParseBlob ==
    /\ snapshot = None
    /\ \E now \in Clock : snapshot' = Outcome(buffer, now)
    /\ UNCHANGED <<blob, buffer, again, legacy, result, cvars, ovars>>

\* parseUserStatusProto(base64Data) runs once more on the same buffer, later.
ParseAgain ==
    /\ snapshot # None
    /\ again = None
    /\ \E now \in LaterClock : again' = Outcome(buffer, now)
    /\ UNCHANGED <<blob, buffer, snapshot, legacy, result, cvars, ovars>>

\* The reader of src/CodingUsage/src/antigravity/databaseReader.ts runs on
\* the buffer.
LegacyParseBlob ==
    /\ legacy = None
    /\ \E now \in Clock : legacy' = Some(LegacyParseUserStatusProto(buffer, now))
    /\ UNCHANGED <<blob, buffer, snapshot, again, result, cvars, ovars>>

ParserNext ==
    \/ ParseBlob
    \/ ParseAgain
    \/ LegacyParseBlob

ParserSpec == ParserInit /\ [][ParserNext]_vars

----------------------------------------------------------------------------
\* Buffers with several models: a sequence of segments, each a known label
\* followed by one of a few byte strings.
MaxSegments == 2    \* segments of an input

\* What may follow a label: nothing; a sub-message holding the single 0.5;
\* one holding 1; one holding a reset time; one whose first field has wire
\* type 3; one whose length runs past what follows; one whose first field
\* is length-delimited with the 5-byte length ff.. that reads as -6.
Bodies == {"none", "half", "one", "reset", "badwire", "truncated", "backjump"}

BodyBytes(body) ==
    CASE body = "none" -> <<>>
      [] body = "half" -> <<QUOTA_TAG, 5, 13>> \o FloatLE(FloatHalf)
      [] body = "one" -> <<QUOTA_TAG, 5, 13>> \o FloatLE(FloatOne)
      [] body = "reset" -> <<QUOTA_TAG, 8, 18, 6, 8>> \o VarintBytes(1899999999)
      [] body = "badwire" -> <<QUOTA_TAG, 6, 27, 13>> \o FloatLE(FloatHalf)
      [] body = "truncated" -> <<QUOTA_TAG, 32, 13, 0, 0>>
      [] body = "backjump" -> <<QUOTA_TAG, 6, 34, 250, 255, 255, 255, 15>>

Segments == [label : LabelChoices, body : Bodies]
Docs == UNION {[1..n -> Segments] : n \in 1..MaxSegments}

RECURSIVE EncodeDoc(_)
EncodeDoc(d) ==
    IF d = <<>> THEN <<>>
    ELSE modelLabels[Head(d).label] \o BodyBytes(Head(d).body) \o EncodeDoc(Tail(d))

DocInit ==
    /\ ProviderInit
    /\ OthersIdle
    /\ blob \in Docs
    /\ buffer = EncodeDoc(blob)
    /\ snapshot = None
    /\ again = None
    /\ legacy = None
    /\ result = None

DocNext == ParseBlob

DocSpec == DocInit /\ [][DocNext]_vars

----------------------------------------------------------------------------
\* Calls of the helpers readVarintTuple, skipField and the older readVarint
\* on short buffers: bytes with and without the continuation bit, and an
\* offset inside the buffer, at its end or one past it.
MaxBytes == 6       \* bytes of an input

ByteChoices == {1, 255}
Probes ==
    UNION {[bytes : [1..n -> ByteChoices], offset : 0..(n + 1)] : n \in 0..MaxBytes}

ProbeInit ==
    /\ ProviderInit
    /\ OthersIdle
    /\ blob \in Probes
    /\ buffer = blob.bytes
    /\ snapshot = None
    /\ again = None
    /\ legacy = None
    /\ result = None

Called(fn, arg, ret) == Some([fn |-> fn, arg |-> arg, ret |-> ret])

\* readVarintTuple(buffer, offset) is called.
ReadVarintTupleCall ==
    /\ result = None
    /\ result' = Called("readVarintTuple", 0, ReadVarintTuple(buffer, blob.offset))
    /\ UNCHANGED <<blob, buffer, snapshot, again, legacy, cvars, ovars>>

\* readVarint(buffer, offset) of the older reader is called.
LegacyReadVarintCall ==
    /\ result = None
    /\ result' = Called("readVarint", 0, LegacyReadVarint(buffer, blob.offset))
    /\ UNCHANGED <<blob, buffer, snapshot, again, legacy, cvars, ovars>>

\* skipField(buffer, ptr, wireType) is called.
SkipFieldCall ==
    /\ result = None
    /\ \E wireType \in 0..7 :
           result' = Called("skipField", wireType,
                            SkipField(buffer, blob.offset, wireType))
    /\ UNCHANGED <<blob, buffer, snapshot, again, legacy, cvars, ovars>>

ProbeNext ==
    \/ ReadVarintTupleCall
    \/ LegacyReadVarintCall
    \/ SkipFieldCall

ProbeSpec == ProbeInit /\ [][ProbeNext]_vars

\* The bytes a varint read at offset takes: up to and including the first
\* byte below 128, but no more than five and no more than the buffer has.
Terminators(buf, offset) ==
    {m \in 1..5 : offset + m <= Len(buf) /\ buf[offset + m] < 128}
VarintLength(buf, offset) ==
    IF Terminators(buf, offset) # {}
      THEN CHOOSE m \in Terminators(buf, offset) :
               \A n \in Terminators(buf, offset) : m <= n
      ELSE Min(5, IF Len(buf) > offset THEN Len(buf) - offset ELSE 0)

----------------------------------------------------------------------------
\* Buffers with plan names: a sequence of pieces, each one of the four plan
\* strings (1..4, as in planPatterns) or two other bytes (0).
MaxPieces == 3      \* pieces of an input

Pieces == 0..4
PlanDocs == UNION {[1..n -> Pieces] : n \in 0..MaxPieces}

RECURSIVE EncodePlanDoc(_)
EncodePlanDoc(d) ==
    IF d = <<>> THEN <<>>
    ELSE (IF Head(d) = 0 THEN <<10, 2>> ELSE planPatterns[Head(d)])
             \o EncodePlanDoc(Tail(d))

PlanInit ==
    /\ ProviderInit
    /\ OthersIdle
    /\ blob \in PlanDocs
    /\ buffer = EncodePlanDoc(blob)
    /\ snapshot = None
    /\ again = None
    /\ legacy = None
    /\ result = None

PlanNext == ParseBlob

PlanSpec == PlanInit /\ [][PlanNext]_vars

\* The input holds the k-th plan string.
HasPiece(d, k) == \E i \in DOMAIN d : d[i] = k

\* pat occurs somewhere in buf.
Occurs(buf, pat) == \E i \in 0..Len(buf) : OccursAt(buf, pat, i)

\* The entries of the snapshot returned, and the one for the input's label.
Models == snapshot[1].models
EntriesFor(name) == {Models[j] : j \in {i \in DOMAIN Models : Models[i].label = name}}

\* The entries with a given label in any snapshot.
EntriesIn(snap, name) ==
    {snap.models[j] : j \in {i \in DOMAIN snap.models : snap.models[i].label = name}}

\* The input's sub-message holds no float field.
NoFloat(b) == \A j \in DOMAIN b.fields : b.fields[j].kind # "float"

\* The input's sub-message holds exactly one float field, and it holds f.
OnlyFloat(b, f) ==
    \E i \in DOMAIN b.fields :
        /\ b.fields[i] = FloatField(f)
        /\ \A j \in DOMAIN b.fields : b.fields[j].kind = "float" => j = i

\* The input's sub-message holds exactly one reset-time field, and it holds ts.
OnlyReset(b, ts) ==
    \E i \in DOMAIN b.fields :
        /\ b.fields[i] = ResetField(ts)
        /\ \A j \in DOMAIN b.fields : b.fields[j].kind = "reset" => j = i

----------------------------------------------------------------------------
\* C2: under LiveSpec (every armed timer eventually fires, vendor calls may
\* hang), a live provider that is Loading eventually leaves Loading, whatever
\* the interleaving of overlapping fetches, retries and late completions.
\* Disposal ends the provider's life and with it the obligation.
C2_LoadingEventuallyEnds ==
    (isRefreshing /\ ~disposed) ~> (~isRefreshing \/ disposed)

\* C2 witness: Loading while a fetch hangs with its timeout timer cleared by
\* the failure of an overlapping fetch, whose retry is still pending.
C2_Witness ==
    /\ isRefreshing /\ ~disposed
    /\ liveFetchTimers = {}
    /\ BagCardinality(fetches) >= 1
    /\ BagCardinality(retries) >= 1

----------------------------------------------------------------------------
\* C1: a refresh request (refresh(), safeRefresh() or the debounce callback)
\* that arrives while a fetch is in flight in Loading starts no new fetch.
C1_NoSecondFetchWhileLoading ==
    [][(isRefreshing /\ fetches # EmptyBag /\ (Refresh \/ SafeRefresh \/ ClickTimerFire))
          => BagCardinality(fetches') <= BagCardinality(fetches)]_vars

----------------------------------------------------------------------------
AttemptsWithin(limit) ==
    /\ \A f \in BagToSet(fetches) : f.retryCount + 1 <= limit
    /\ \A r \in BagToSet(retries) : r.retryCount + 1 <= limit

\* C3 as stated: fetchData runs at most 3 times in a cycle, no fourth
\* attempt is scheduled or fired.
C3_AtMostThreeAttempts == AttemptsWithin(RETRY_LIMIT)

\* C3 as amended: fetchData runs at most 4 times in a cycle (the first attempt
\* and 3 retries); the fourth consecutive failure leaves the provider Idle
\* and schedules no fifth attempt.
C3_AtMostFourAttempts ==
    [][/\ AttemptsWithin(RETRY_LIMIT + 1)'
       /\ \A f \in BagToSet(fetches) :
             (SummaryThrowsOf(f) /\ f.retryCount = RETRY_LIMIT)
                => (~isRefreshing' /\ retries' = retries /\ out'.ev = "gaveUp")]_vars

\* C3 witness: the fourth attempt of a cycle has just failed and the cycle
\* has given up, leaving the provider Idle with nothing scheduled.
C3_Witness ==
    /\ out.ev = "gaveUp"
    /\ ~isRefreshing
    /\ retries = EmptyBag

----------------------------------------------------------------------------
\* C4 as stated: the debounce timer firing dispatches one refresh and no
\* settings; the second click of a window dispatches one settings command and
\* no refresh, now or later.
C4_SecondClickAlwaysSettings ==
    [][/\ ClickTimerFire => out'.cmd = "refresh"
       /\ (Click /\ windowClicks = 1)
             => (out'.cmd = "settings" /\ liveClickTimers' = {})]_vars

\* C4 as amended: the debounce timer firing starts exactly one refresh and
\* dispatches no settings command; a second click that arrives in the window
\* while the provider is not Loading dispatches exactly one settings command,
\* starts no fetch and cancels the timer, so no refresh follows; the first
\* click dispatches nothing.
C4_Debounce ==
    [][/\ ClickTimerFire
             => /\ out'.cmd = "refresh"
                /\ BagCardinality(fetches') = BagCardinality(fetches) + 1
       /\ (Click /\ windowClicks >= 1 /\ ~isRefreshing)
             => /\ out'.cmd = "settings"
                /\ liveClickTimers' = {} /\ clickTimer' = NoTimer /\ clickCount' = 0
                /\ fetches' = fetches
       /\ (Click /\ windowClicks = 0) => (out'.cmd = "none" /\ fetches' = fetches)]_vars

\* C4 witness: a double click has just dispatched the settings command and
\* left no debounce timer behind.
C4_Witness ==
    /\ out.cmd = "settings"
    /\ liveClickTimers = {}
    /\ clickCount = 0

----------------------------------------------------------------------------
\* C5: handleStatusBarClick while Loading changes nothing of the provider
\* and dispatches neither refresh nor settings.
C5_ClickIgnoredWhileLoading ==
    [][(Click /\ isRefreshing)
          => /\ UNCHANGED <<clickCount, clickTimer, liveClickTimers, isRefreshing,
                            isManualRefresh, fetchTimeoutTimer, liveFetchTimers,
                            retries, fetches, summaryData, statusBar, disposed>>
             /\ out'.cmd = "none"]_vars

\* C5 witness: a click was dropped while Loading with a debounce timer still
\* pending from a click made before the refresh began.
C5_Witness ==
    /\ isRefreshing
    /\ windowClicks = 2
    /\ clickCount = 1
    /\ clickTimer # NoTimer

----------------------------------------------------------------------------
\* A step of suspended fetch f.
StepOf(f) ==
    \/ \E showAll \in BOOLEAN : TokenMissingOf(f, showAll)
    \/ TokenFoundOf(f)
    \/ \E r \in Responses : SummaryReturnsOf(f, r)
    \/ SummaryThrowsOf(f)
    \/ \E ok \in BOOLEAN : RelayReturnsOf(f, ok)
    \/ TailReturnsOf(f)

\* C6: the late completion of a fetch whose cycle was force-reset changes
\* neither the stored usage data, nor isRefreshing/isManualRefresh, nor the
\* timeout timer.
C6_LateCompletionDiscarded ==
    [][\A f \in BagToSet(fetches) :
          (f.stale /\ StepOf(f))
             => UNCHANGED <<summaryData, isRefreshing, isManualRefresh,
                            fetchTimeoutTimer, liveFetchTimers>>]_vars

----------------------------------------------------------------------------
\* C7: the fetch-timeout timer firing while the refresh is user-initiated
\* shows an error message.
C7_ManualTimeoutShowsError ==
    [][\A t \in liveFetchTimers :
          (TimeoutOf(t) /\ isManualRefresh) => out'.err]_vars

----------------------------------------------------------------------------
\* C8: the timeout or the final failure of a fetch cycle not started by
\* refresh() shows no error message.
C8_AutoFailureSilent ==
    [][/\ \A t \in liveFetchTimers :
             (TimeoutOf(t) /\ t.origin = "auto") => ~out'.err
       /\ \A f \in BagToSet(fetches) :
             (SummaryThrowsOf(f) /\ f.origin = "auto") => ~out'.err]_vars

\* C8 witness: the timeout timer of an automatic fetch has just fired, and
\* no error message was shown.
C8_Witness ==
    /\ out.ev = "timeout"
    /\ out.origin = "auto"
    /\ ~out.err

----------------------------------------------------------------------------
\* C9: at most one fetch-timeout timer and at most one click-debounce timer
\* are live, and each is the one its field holds.
C9_OneTimerOfEachKind ==
    /\ Cardinality(liveFetchTimers) <= 1
    /\ Cardinality(liveClickTimers) <= 1
    /\ \A t \in liveFetchTimers : t.id = fetchTimeoutTimer
    /\ \A t \in liveClickTimers : t.id = clickTimer

\* C9 witness: two fetchData calls overlap, each of which armed a timeout
\* timer, yet only the timer of the later call is live.
C9_Witness ==
    /\ BagCardinality(fetches) >= 2
    /\ liveFetchTimers = {[id |-> fetchTimeoutTimer, origin |-> "manual"]}

----------------------------------------------------------------------------
\* C10: dispose() leaves no timer of the provider armed, and no timer
\* callback runs on the disposed provider afterwards.
C10_NoTimerAfterDispose ==
    [][/\ Dispose => (/\ retries' = EmptyBag
                      /\ liveFetchTimers' = {}
                      /\ liveClickTimers' = {})
       /\ disposed => ~(RetryFire \/ FetchTimeoutFire \/ ClickTimerFire)]_vars

----------------------------------------------------------------------------
\* The fetch record fetchData(0) suspends when safeRefresh() starts it.
Started == [retryCount |-> 0, stage |-> "token", origin |-> "auto", stale |-> FALSE]

\* C11: when the window-focus callback finds this provider Loading, it
\* leaves isRefreshing false, the timeout timer the field held is cleared
\* and a new fetch (with a timer of its own) is started; when it finds no
\* provider Loading, the provider's state is unchanged and no fetch starts.
C11_FocusRecovery ==
    [][/\ (WindowFocus /\ isRefreshing) =>
             /\ ~isRefreshing' /\ ~isManualRefresh'
             /\ liveFetchTimers' \ {[id |-> fetchTimeoutTimer', origin |-> "auto"]}
                  = {t \in liveFetchTimers : t.id # fetchTimeoutTimer}
             /\ [id |-> fetchTimeoutTimer', origin |-> "auto"] \in liveFetchTimers'
             /\ fetches' = Superseded(fetches) (+) One(Started)
       /\ (WindowFocusOf(FALSE) /\ ~isRefreshing) =>
             UNCHANGED <<isRefreshing, isManualRefresh, fetchTimeoutTimer,
                         liveFetchTimers, fetches, retries, summaryData,
                         primaryEmail, statusBar>>]_vars

\* C11 witness: a manual refresh was stuck at its first await when the focus
\* callback recovered: the provider is not Loading, the stuck fetch is
\* superseded, a new automatic fetch runs under the only live timeout timer.
C11_Witness ==
    /\ out.ev = "recovery"
    /\ ~isRefreshing
    /\ fetches = One([Started EXCEPT !.origin = "manual", !.stale = TRUE]) (+) One(Started)
    /\ liveFetchTimers = {[id |-> fetchTimeoutTimer, origin |-> "auto"]}

----------------------------------------------------------------------------
\* C12: a stuck Loading state in another provider starts no fetch in this
\* provider and touches none of its timers: the focus callback that finds
\* only the other provider Loading leaves this one alone.
C12_ProvidersIndependent ==
    [][(WindowFocusOf(TRUE) /\ ~isRefreshing) =>
          UNCHANGED <<fetches, liveFetchTimers, fetchTimeoutTimer>>]_vars

----------------------------------------------------------------------------
\* C13: when the awaited relay submission fails, the fetch goes on exactly
\* as after a successful one: it moves to the rest of the cycle, no retry
\* is scheduled, no fetch is abandoned or added, nothing is reset and no
\* failure is reported; the cycle then ends by its normal completion.
C13_RelayFailureSwallowed ==
    [][\A f \in BagToSet(fetches) :
          RelayReturnsOf(f, FALSE) =>
             /\ fetches' = Advance(f, "tail")
             /\ out'.ev = "relayFailed" /\ ~out'.err
             /\ UNCHANGED <<retries, isRefreshing, isManualRefresh, liveFetchTimers,
                            fetchTimeoutTimer, summaryData, statusBar>>]_vars

\* C13 witness: the relay submission of the first fetch has just failed, and
\* the fetch is on its way to normal completion with no retry pending.
C13_Witness ==
    /\ out.ev = "relayFailed"
    /\ fetches = One([Started EXCEPT !.stage = "tail"])
    /\ retries = EmptyBag
    /\ summaryData # Null

----------------------------------------------------------------------------
\* C14: a fetch whose vendor calls have all succeeded does not wait for the
\* relay: while the only fetch in progress is suspended in the relay
\* submission, the provider is already Idle and shows the usage.
C14_RelayNeverBlocks ==
    \A f \in BagToSet(fetches) :
        (f.stage = "relay" /\ ~f.stale /\ fetches = One(f) /\ retries = EmptyBag)
            => (~isRefreshing /\ statusBar = "usage")

----------------------------------------------------------------------------
\* C15 as claimed: a fetch that finds no credential schedules no retry,
\* clears the timeout timer, leaves the provider not Loading, reports no
\* failure and sets the 'Not Logged In' status.
C15_MissingCredentialShowsNotLoggedIn ==
    [][\A f \in BagToSet(fetches) : \A showAll \in BOOLEAN :
          TokenMissingOf(f, showAll) =>
             /\ retries' = retries
             /\ fetchTimeoutTimer' = NoTimer
             /\ \A t \in liveFetchTimers' : t.id # fetchTimeoutTimer
             /\ ~isRefreshing'
             /\ out' = Quiet
             /\ statusBar' = "notLoggedIn"]_vars

\* C15 as the code has it: the same, except that in show-all mode the item
\* is hidden and the 'Not Logged In' status is not set.
C15_MissingCredentialNotAnError ==
    [][\A f \in BagToSet(fetches) : \A showAll \in BOOLEAN :
          TokenMissingOf(f, showAll) =>
             /\ retries' = retries
             /\ fetchTimeoutTimer' = NoTimer
             /\ \A t \in liveFetchTimers' : t.id # fetchTimeoutTimer
             /\ ~isRefreshing'
             /\ out' = Quiet
             /\ statusBar' = IF showAll THEN "hidden" ELSE "notLoggedIn"]_vars

\* C15 witness: a manual refresh found no credential in show-all mode: the
\* cycle is over with no retry and no timer, and the item is hidden.
C15_Witness ==
    /\ statusBar = "hidden"
    /\ ~isRefreshing
    /\ fetches = EmptyBag /\ retries = EmptyBag
    /\ liveFetchTimers = {} /\ fetchTimeoutTimer = NoTimer
    /\ out = Quiet

----------------------------------------------------------------------------
\* C16: fetch cycles in which every attempt fails leave the stored data as
\* it was.  No data is stored at construction, so when a cycle has just
\* given up after its last attempt, nothing else is in progress and no cycle
\* has ever stored a summary (none succeeded), primaryEmail is still unset.
C16_FailedCycleLeavesDataUnchanged ==
    (/\ out.ev = "gaveUp"
     /\ fetches = EmptyBag /\ retries = EmptyBag
     /\ summaryData = Null)
        => primaryEmail = Null

----------------------------------------------------------------------------
\* C17: for every input whose label is followed by the sub-message whose
\* one float field (field 1, wire type 5) holds a single f with 0 <= f <= 1,
\* whatever other fields come before and after it, the snapshot has exactly
\* one entry for the label, and its remainingFraction is f, bit for bit.
C17_FractionRecovered ==
    snapshot # None =>
        \A f \in UnitFloats :
            OnlyFloat(blob, f) =>
                /\ Cardinality(EntriesFor(labelNames[blob.label])) = 1
                /\ \A e \in EntriesFor(labelNames[blob.label]) :
                       e.remainingFraction = Some(f)

\* C17 witness: 0.5 after a rejected reset time and two bytes of another
\* field has been recovered.
C17_Witness ==
    /\ snapshot # None
    /\ blob.gap = <<16, 1>>
    /\ blob.fields = <<ResetField(1704067200), FloatField(FloatHalf)>>
    /\ \E e \in EntriesFor(labelNames[blob.label]) :
           e.remainingFraction = Some(FloatHalf) /\ ~e.isExhausted

----------------------------------------------------------------------------
\* C18: in every snapshot, every entry's remainingFraction is absent or a
\* single in [0,1]; a value present is one the buffer holds in a float
\* field, or the 0 that stands for an omitted field beside a reset time:
\* never a value made by moving an out-of-range one into the range.
C18_FractionInUnitOrAbsent ==
    snapshot # None =>
        \A j \in DOMAIN Models :
            LET e == Models[j]
            IN  \/ e.remainingFraction = None
                \/ /\ e.remainingFraction[1] \in UnitFloats
                   /\ \/ \E i \in DOMAIN blob.fields :
                            blob.fields[i] = FloatField(e.remainingFraction[1])
                      \/ e.remainingFraction[1] = FloatZero /\ e.resetTime \notin Clock

\* C18 witness: the single above 1 beside a valid reset time was read and
\* the entry does not report 1.
C18_Witness ==
    /\ snapshot # None
    /\ blob.fields = <<FloatField(FloatAboveOne), ResetField(1899999999)>>
    /\ \E e \in EntriesFor(labelNames[blob.label]) :
           e.remainingFraction # Some(FloatOne)

----------------------------------------------------------------------------
\* C19: when the one float field of the sub-message holds a single outside
\* [0,1], the entry's remainingFraction is undefined, whatever else the
\* sub-message holds.
C19_OutOfRangeFloatUndefined ==
    snapshot # None =>
        \A f \in OtherFloats :
            OnlyFloat(blob, f) =>
                \A e \in EntriesFor(labelNames[blob.label]) :
                    e.remainingFraction = None

----------------------------------------------------------------------------
\* C20: when the one reset-time field of the sub-message (field 2, holding
\* field 1 as a varint) carries a timestamp t with 1704067200 < t <
\* 1900000000, the entry's resetTime is the instant t seconds and 0
\* milliseconds after the epoch, that is t*1000 ms.
C20_ResetTimeRecovered ==
    snapshot # None =>
        \A t \in SaneTimestamps :
            OnlyReset(blob, t) =>
                /\ Cardinality(EntriesFor(labelNames[blob.label])) = 1
                /\ \A e \in EntriesFor(labelNames[blob.label]) :
                       e.resetTime = Date(t, 0)

\* C20 witness: the last timestamp of the range, after a NaN float, has
\* been recovered.
C20_Witness ==
    /\ snapshot # None
    /\ blob.fields = <<FloatField(FloatNaN), ResetField(1899999999)>>
    /\ \E e \in EntriesFor(labelNames[blob.label]) :
           e.resetTime = Date(1899999999, 0)

----------------------------------------------------------------------------
\* A value is a Date (the model writes an undefined value as None).
IsDate(v) == v \in [s : Nat, ms : 0..999]

\* C21: when the one reset-time field of the sub-message carries a timestamp
\* t outside the open range (1704067200, 1900000000), the entry's resetTime
\* in the snapshot is undefined, that is, not a Date.
C21_OutOfRangeResetUndefined ==
    snapshot # None =>
        \A t \in OtherTimestamps :
            OnlyReset(blob, t) =>
                \A e \in EntriesFor(labelNames[blob.label]) : ~IsDate(e.resetTime)

----------------------------------------------------------------------------
\* C22: when the sub-message after the label holds one reset-time field with
\* a timestamp inside the range and no float field, the entry for the label
\* reports remainingFraction 0 and isExhausted, in the snapshot of either
\* reader.
C22_MissingFractionMeansZero ==
    \A t \in SaneTimestamps :
        (OnlyReset(blob, t) /\ NoFloat(blob)) =>
            /\ snapshot # None =>
                   \A e \in EntriesIn(snapshot[1], labelNames[blob.label]) :
                       e.remainingFraction = Some(FloatZero) /\ e.isExhausted
            /\ legacy # None =>
                   \A e \in EntriesIn(legacy[1], labelNames[blob.label]) :
                       e.resetTime = Date(t, 0) =>
                           e.remainingFraction = Some(FloatZero) /\ e.isExhausted

\* C22, the sub-message reader of src/unnamed/part_002 alone.
C22_SubMessageReaderDefaultsToZero ==
    \A t \in SaneTimestamps :
        (snapshot # None /\ OnlyReset(blob, t) /\ NoFloat(blob)) =>
            \A e \in EntriesIn(snapshot[1], labelNames[blob.label]) :
                e.remainingFraction = Some(FloatZero) /\ e.isExhausted

----------------------------------------------------------------------------
\* The input's sub-message yields neither a fraction nor a reset time: it
\* holds no float in [0,1] and no timestamp inside the range.
NoQuota(b) ==
    \A j \in DOMAIN b.fields :
        /\ b.fields[j].kind = "float" => b.fields[j].f \notin UnitFloats
        /\ b.fields[j].kind = "reset" => b.fields[j].ts \notin SaneTimestamps

\* C23: a label that is in the buffer but is followed by no sub-message
\* yielding a fraction or a reset time produces no entry: the buffers of the
\* model hold one label, so models is empty.
C23_LabelWithoutQuotaOmitted ==
    (snapshot # None /\ NoQuota(blob)) => Models = <<>>

----------------------------------------------------------------------------
\* C24: in every snapshot returned, every entry's label is a known label
\* whose bytes occur in the buffer, a known label whose bytes do not occur
\* has no entry, and no two entries have the same label.
C24_OnlyLabelsInBuffer ==
    (snapshot # None /\ Returned(snapshot)) =>
        /\ \A j \in DOMAIN Models :
               \E k \in DOMAIN labelNames :
                   Models[j].label = labelNames[k] /\ Occurs(buffer, modelLabels[k])
        /\ \A k \in DOMAIN labelNames :
               ~Occurs(buffer, modelLabels[k]) => EntriesFor(labelNames[k]) = {}
        /\ \A i, j \in DOMAIN Models : Models[i].label = Models[j].label => i = j

\* C24 witness: a buffer with 'Claude Sonnet 4.5 (Thinking)' twice and
\* 'Gemini 3 Flash' absent was parsed: one entry.
C24_Witness ==
    /\ snapshot # None /\ Returned(snapshot)
    /\ blob = <<[label |-> 2, body |-> "half"], [label |-> 2, body |-> "reset"]>>
    /\ Len(Models) = 1
    /\ Models[1].label = "Claude Sonnet 4.5 (Thinking)"

----------------------------------------------------------------------------
\* The i-th segment is the first one with its label, and its label's bytes
\* do not occur inside an earlier segment's label.
FirstOfItsLabel(d, i) ==
    \A j \in 1..(i - 1) : ~Occurs(modelLabels[d[j].label], modelLabels[d[i].label])

\* C25: whatever malformed sub-messages a buffer holds for some models, the
\* call returns a snapshot, and a model whose own sub-message is well formed
\* (the first with its label, holding 0.5 or 1) has that fraction.
C25_ParseFailureNeverFatal ==
    snapshot # None =>
        /\ Returned(snapshot)
        /\ \A i \in DOMAIN blob :
               (blob[i].body \in {"half", "one"} /\ FirstOfItsLabel(blob, i)) =>
                   \A e \in EntriesFor(labelNames[blob[i].label]) :
                       e.remainingFraction =
                           Some(IF blob[i].body = "half" THEN FloatHalf ELSE FloatOne)

\* C25, apart from the sub-messages on which a field walk never ends.
C25_FailuresThatEndAreNotFatal ==
    (snapshot # None /\ \A i \in DOMAIN blob : blob[i].body # "backjump") =>
        /\ Returned(snapshot)
        /\ \A i \in DOMAIN blob :
               (blob[i].body \in {"half", "one"} /\ FirstOfItsLabel(blob, i)) =>
                   \A e \in EntriesFor(labelNames[blob[i].label]) :
                       e.remainingFraction =
                           Some(IF blob[i].body = "half" THEN FloatHalf ELSE FloatOne)

----------------------------------------------------------------------------
\* A snapshot without its timestamp.
SansTimestamp(snap) == [models |-> snap.models, planName |-> snap.planName]

\* C26: two calls on the same buffer, the second at a later instant, return
\* snapshots equal in everything but timestamp: the same entries in the same
\* order, with the same label, modelId, remainingFraction, isExhausted,
\* resetTime, timeUntilReset and timeUntilResetFormatted, and the same planName.
C26_SameSnapshotTwice ==
    (snapshot # None /\ again # None) =>
        SansTimestamp(snapshot[1]) = SansTimestamp(again[1])

\* C26, for what does not depend on the clock: labels, ids, fractions,
\* exhaustion, plan name, and the reset time when the buffer holds one.
ClockFree(e) ==
    [label |-> e.label, modelId |-> e.modelId,
     remainingFraction |-> e.remainingFraction, isExhausted |-> e.isExhausted]
C26_SameQuotaTwice ==
    (snapshot # None /\ again # None) =>
        /\ snapshot[1].planName = again[1].planName
        /\ Len(snapshot[1].models) = Len(again[1].models)
        /\ \A j \in DOMAIN snapshot[1].models :
               ClockFree(snapshot[1].models[j]) = ClockFree(again[1].models[j])

----------------------------------------------------------------------------
\* C27: the plan name is 'Google AI Ultra' for every buffer that holds the
\* bytes 'Google AI Ultra'; 'Google AI Pro' for one that holds another of
\* the plan strings and not 'Google AI Ultra'; undefined for one that holds
\* none.
C27_PlanName ==
    snapshot # None =>
        snapshot[1].planName =
            IF Occurs(buffer, planPatterns[2]) THEN Some("Google AI Ultra")
            ELSE IF \E k \in {1, 3, 4} : Occurs(buffer, planPatterns[k])
              THEN Some("Google AI Pro")
              ELSE None

\* C27, for the buffers that do not hold both 'Google AI Pro' and 'Google AI
\* Ultra'.
C27_PlanNameUnlessBoth ==
    (snapshot # None /\ ~(HasPiece(blob, 1) /\ HasPiece(blob, 2))) =>
        snapshot[1].planName =
            IF HasPiece(blob, 2) THEN Some("Google AI Ultra")
            ELSE IF \E k \in {1, 3, 4} : HasPiece(blob, k)
              THEN Some("Google AI Pro")
              ELSE None

----------------------------------------------------------------------------
----------------------------------------------------------------------------
\* C29: skipField yields -1 for every wire type other than 0, 1, 2 and 5,
\* and whenever the field it skips runs past the end of the buffer (stated
\* for the fields of fixed size, wire types 1 and 5).
C29_SkipYieldsNotFound ==
    \A ptr \in 0..Len(buffer), wireType \in 0..7 :
        (\/ wireType \notin {0, 1, 2, 5}
         \/ wireType = 1 /\ ptr + 8 > Len(buffer)
         \/ wireType = 5 /\ ptr + 4 > Len(buffer))
            => SkipField(buffer, ptr, wireType) = -1

\* C29, amended: skipField yields -1 for every wire type other than 0, 1, 2
\* and 5, and for the fixed sizes the offset after the field, be it past
\* the end of the buffer; a walk that meets a field of another wire type
\* stops there, so the call returns and a float after that field is not read.
C29_WalkStopsOnNotFound ==
    /\ \A ptr \in 0..Len(buffer), wireType \in 0..7 :
           /\ wireType \notin {0, 1, 2, 5} => SkipField(buffer, ptr, wireType) = -1
           /\ wireType = 1 => SkipField(buffer, ptr, wireType) = ptr + 8
           /\ wireType = 5 => SkipField(buffer, ptr, wireType) = ptr + 4
    /\ (snapshot # None /\ \A i \in DOMAIN blob : blob[i].body \in {"none", "badwire"}) =>
           /\ Returned(snapshot)
           /\ \A j \in DOMAIN Models : Models[j].remainingFraction = None

\* C29 witness: 'Gemini 3 Flash' followed by a sub-message whose first field
\* has wire type 3 and whose second is the single 0.5 was parsed.
C29_Witness ==
    /\ snapshot # None /\ Returned(snapshot)
    /\ blob = <<[label |-> 6, body |-> "badwire"]>>
    /\ Len(Models) = 1
    /\ Models[1].remainingFraction = None

----------------------------------------------------------------------------
\* The label in lower case, and that with every character outside a-z and
\* 0-9 removed.
LowerCased(label) == [i \in 1..Len(label) |-> ToLowerCase(label[i])]
Stripped(label) == SelectSeq(LowerCased(label), IsSlugChar)

\* The bytes of a label given by name.
BytesOf(name) == modelLabels[CHOOSE k \in DOMAIN labelNames : labelNames[k] = name]

\* C30: every entry's modelId is its label in lower case with the
\* characters outside a-z and 0-9 removed, and two different known labels
\* never have the same modelId.
C30_SlugStripped ==
    (snapshot # None /\ Returned(snapshot)) =>
        /\ \A j \in DOMAIN Models :
               Models[j].modelId = Stripped(BytesOf(Models[j].label))
        /\ \A j, k \in DOMAIN modelLabels :
               ModelId(modelLabels[j]) = ModelId(modelLabels[k]) => j = k

\* C30, amended: every entry's modelId is its label in lower case with
\* every character outside a-z and 0-9 replaced by '-' (so it is as long as
\* the label); entries with different labels have different modelIds, and
\* so have any two of the seven known labels.
C30_SlugInjective ==
    (snapshot # None /\ Returned(snapshot)) =>
        /\ \A j \in DOMAIN Models :
               LET id == Models[j].modelId
                   lower == LowerCased(BytesOf(Models[j].label))
               IN  /\ Len(id) = Len(lower)
                   /\ \A i \in DOMAIN lower :
                          id[i] = IF IsSlugChar(lower[i]) THEN lower[i] ELSE 45
        /\ \A i, j \in DOMAIN Models :
               Models[i].modelId = Models[j].modelId => i = j
        /\ \A j, k \in DOMAIN modelLabels :
               ModelId(modelLabels[j]) = ModelId(modelLabels[k]) => j = k

\* C30 witness: a snapshot with the entries of 'Claude Sonnet 4.5' and of
\* 'Claude Sonnet 4.5 (Thinking)', whose ids differ and hold '-'.
C30_Witness ==
    /\ snapshot # None /\ Returned(snapshot)
    /\ blob = <<[label |-> 3, body |-> "half"], [label |-> 2, body |-> "one"]>>
    /\ Len(Models) = 2
    /\ Models[1].modelId # Models[2].modelId
    /\ \E i \in DOMAIN Models[1].modelId : Models[1].modelId[i] = 45

----------------------------------------------------------------------------
(***************************************************************************)
(* The background script of the browser extension (src/unnamed/part_001,   *)
(* lines 1-203).  Each listener call and each timer callback is one step.  *)
(* A timer armed for d milliseconds fires at some time not before d        *)
(* milliseconds have passed, possibly later.                               *)
(***************************************************************************)
MaxSeconds == 3     \* the time runs up to MaxSeconds seconds
MaxRequests == 3    \* ide_user_pay_status requests in a run

\* Program constant: the delay given to setTimeout by the listener.
DEBOUNCE_DELAY == 1000

Horizon == MaxSeconds * DEBOUNCE_DELAY

\* The amounts of time that pass between two steps.
Lapses == {DEBOUNCE_DELAY \div 2, DEBOUNCE_DELAY}

BackgroundOnlyInit ==
    /\ ProviderInit
    /\ blob = <<>>
    /\ buffer = <<>>
    /\ snapshot = None
    /\ again = None
    /\ legacy = None
    /\ result = None
    /\ BackgroundInit
    /\ ServerInit
    /\ PackagingIdle

ClearTimeout_Kept(timeouts, id) == timeouts

\* clearTimeout(id): the timer is taken out of the event loop.
ClearTimeout(timeouts, id) == {t \in timeouts : t.id # id}

\* The onBeforeSendHeaders listener is called with a URL that includes
\* '/ide_user_pay_status'.
PayStatusRequest ==
    /\ burst.requests < MaxRequests
    /\ time + DEBOUNCE_DELAY <= Horizon
    /\ LET id == burst.requests + 1
           cleared == IF extractionTimeout # Null
                      THEN ClearTimeout(liveTimeouts, extractionTimeout)
                      ELSE liveTimeouts
       IN  /\ liveTimeouts' = cleared \cup {[id |-> id, due |-> time + DEBOUNCE_DELAY]}
           /\ extractionTimeout' = id
           /\ burst' = [requests |-> id,
                        last |-> time,
                        unbroken |-> /\ burst.unbroken
                                     /\ \/ burst.requests = 0
                                        \/ time - burst.last < DEBOUNCE_DELAY]
    /\ UNCHANGED <<time, extractions, cvars, pvars, svars, kvars>>

\* The callback given to setTimeout runs: extractTraeSessionFromCookies() is
\* called and extractionTimeout is set to null.
ExtractionTimeoutFires ==
    /\ \E t \in liveTimeouts :
           /\ t.due <= time
           /\ liveTimeouts' = liveTimeouts \ {t}
    /\ extractions' = extractions + 1
    /\ extractionTimeout' = Null
    /\ UNCHANGED <<time, burst, cvars, pvars, svars, kvars>>

\* Time passes.
Pass ==
    /\ \E d \in Lapses :
           /\ time + d <= Horizon
           /\ time' = time + d
    /\ UNCHANGED <<extractionTimeout, liveTimeouts, extractions, burst,
                   cvars, pvars, svars, kvars>>

BackgroundNext ==
    \/ PayStatusRequest
    \/ ExtractionTimeoutFires
    \/ Pass

\* Time goes on and a timer that is due fires.
BackgroundSpec ==
    /\ BackgroundOnlyInit
    /\ [][BackgroundNext]_vars
    /\ WF_vars(Pass)
    /\ WF_vars(ExtractionTimeoutFires)

\* Every request so far came less than DEBOUNCE_DELAY after the one before.
InOneBurst == burst.requests > 0 /\ burst.unbroken

\* At most one timeout is pending; in a burst nothing is extracted while a
\* timeout is pending, and the one extraction comes a full delay after the
\* last request.
DebounceHolds ==
    /\ Cardinality(liveTimeouts) <= 1
    /\ InOneBurst =>
           \/ extractions = 0 /\ liveTimeouts # {}
           \/ /\ extractions = 1
              /\ liveTimeouts = {}
              /\ time >= burst.last + DEBOUNCE_DELAY

\* C31: a burst of ide_user_pay_status requests, each less than one second
\* after the one before, leads to exactly one call of
\* extractTraeSessionFromCookies, which comes after the last request of the
\* burst; at most one extraction timeout is pending at any time.
C31_BurstExtractsOnce ==
    /\ []DebounceHolds
    /\ (burst.requests > 0) ~> (extractions > 0 /\ liveTimeouts = {})

\* A burst of two or more requests at different times has been followed by
\* its one extraction.
C31_Witness ==
    /\ InOneBurst
    /\ burst.requests >= 2
    /\ burst.last > 0
    /\ extractions = 1

----------------------------------------------------------------------------
\* C32: parseUserStatusProto terminates on every input buffer, the cursor of
\* parseInnerQuotaMessage and of parseResetTimeMessage moving forward on
\* every iteration: once called, it has returned a snapshot.
C32_ParseTerminates == snapshot # None => Returned(snapshot)

\* C32, for the buffers in which no length-delimited field has a length
\* that reads as a negative number: the call returns.
C32_TerminatesWithoutNegativeLength ==
    (snapshot # None /\ \A i \in DOMAIN blob : blob[i].body # "backjump") =>
        Returned(snapshot)

----------------------------------------------------------------------------
\* No refresh is under way: isRefreshing is false, no fetchData is suspended
\* and no retry is scheduled.
CycleEnded == ~isRefreshing /\ fetches = EmptyBag /\ retries = EmptyBag

\* C33: whenever a manual refresh cycle has ended (isRefreshing is false and
\* no attempt is in flight or scheduled), the status bar no longer shows the
\* loading indicator set by refresh(), also when no usage data has ever been
\* fetched.
C33_LoadingClearedWhenCycleEnds == CycleEnded => statusBar # "loading"

\* C33, for the providers that hold usage data.
C33_LoadingClearedOnceDataHeld ==
    (CycleEnded /\ summaryData # Null) => statusBar # "loading"

----------------------------------------------------------------------------
\* Inputs for the search of parseQuotaFields: one label, some bytes without
\* a quota tag, then sub-messages one after the other.
MaxSubs == 2        \* sub-messages of an input

\* A sub-message holding the single float 0.5; one holding 1 and a reset
\* time, as the vendor writes it; one holding 0.5 and then 1.5 in field 1;
\* an empty one; one holding the single float 1.5.
SubBodies == {"half", "full", "erased", "empty", "high"}

SubBytes(body) ==
    CASE body = "half" -> <<QUOTA_TAG, 5, 13>> \o FloatLE(FloatHalf)
      [] body = "full" -> <<QUOTA_TAG, 13, 13>> \o FloatLE(FloatOne)
                              \o <<18, 6, 8>> \o VarintBytes(1899999999)
      [] body = "erased" -> <<QUOTA_TAG, 10, 13>> \o FloatLE(FloatHalf)
                                \o <<13>> \o FloatLE(FloatAboveOne)
      [] body = "empty" -> <<QUOTA_TAG, 0>>
      [] body = "high" -> <<QUOTA_TAG, 5, 13>> \o FloatLE(FloatAboveOne)

\* The number of bytes between the label and the first sub-message.
Paddings == {0, SEARCH_WINDOW - 1, SEARCH_WINDOW}

Windows ==
    [label : {3, 6}, pad : Paddings,
     subs : UNION {[1..n -> SubBodies] : n \in 0..MaxSubs}]

RECURSIVE EncodeSubs(_)
EncodeSubs(subs) ==
    IF subs = <<>> THEN <<>> ELSE SubBytes(Head(subs)) \o EncodeSubs(Tail(subs))

EncodeWindow(w) == modelLabels[w.label] \o [i \in 1..w.pad |-> 0] \o EncodeSubs(w.subs)

WindowInit ==
    /\ ProviderInit
    /\ OthersIdle
    /\ blob \in Windows
    /\ buffer = EncodeWindow(blob)
    /\ snapshot = None
    /\ again = None
    /\ legacy = None
    /\ result = None

WindowNext ==
    \/ ParseBlob
    \/ LegacyParseBlob

WindowSpec == WindowInit /\ [][WindowNext]_vars

\* The offset of the j-th sub-message of the input, counted from the end of
\* the label.
RECURSIVE StartOf(_, _)
StartOf(w, j) ==
    IF j = 1 THEN w.pad ELSE StartOf(w, j - 1) + Len(SubBytes(w.subs[j - 1]))

\* The valid fraction a sub-message holds, if any.
FractionIn(body) ==
    CASE body \in {"half", "erased"} -> Some(FloatHalf)
      [] body = "full" -> Some(FloatOne)
      [] OTHER -> None

\* The sub-messages of the input that start within the window after the
\* label and hold a valid fraction.
Eligible(w) ==
    {j \in DOMAIN w.subs :
        StartOf(w, j) < SEARCH_WINDOW /\ FractionIn(w.subs[j]) # None}

\* The fraction of the first of them.
FirstFraction(w) ==
    IF Eligible(w) = {} THEN None
    ELSE FractionIn(w.subs[CHOOSE j \in Eligible(w) : \A i \in Eligible(w) : j <= i])

\* C34: the quota of a label is taken from the first 0x7A-tagged
\* sub-message, among those starting within 500 bytes after the end of the
\* label, that holds a valid fraction or reset time, by the sub-message
\* reader and by the pattern reader alike.
C34_FirstValidCandidate ==
    /\ (snapshot # None /\ Returned(snapshot)) =>
           \A e \in EntriesFor(labelNames[blob.label]) :
               e.remainingFraction = FirstFraction(blob)
    /\ legacy # None =>
           \A e \in EntriesIn(legacy[1], labelNames[blob.label]) :
               e.remainingFraction = FirstFraction(blob)

\* C34, for the sub-message reader on the inputs in which no sub-message
\* holds two floats in field 1.
C34_SubMessageReaderTakesFirst ==
    (/\ snapshot # None
     /\ Returned(snapshot)
     /\ \A j \in DOMAIN blob.subs : blob.subs[j] # "erased") =>
        \A e \in EntriesFor(labelNames[blob.label]) :
            e.remainingFraction = FirstFraction(blob)

----------------------------------------------------------------------------
\* C35: within one quota sub-message, a float of field 1 that is out of
\* range and comes after an accepted one is discarded without erasing the
\* accepted value: for a sub-message holding 0.5 and then 1.5, first in the
\* window after the label, the entry's remainingFraction is 0.5.
C35_AcceptedFractionKept ==
    (/\ snapshot # None
     /\ Returned(snapshot)
     /\ blob.subs # <<>>
     /\ blob.subs[1] = "erased"
     /\ blob.pad < SEARCH_WINDOW) =>
        \A e \in EntriesFor(labelNames[blob.label]) :
            e.remainingFraction = Some(FloatHalf)

----------------------------------------------------------------------------
\* The input holds 'Claude Sonnet 4.5 (Thinking)' with a sub-message of 0.5
\* as its i-th segment and a standalone 'Claude Sonnet 4.5' with a
\* sub-message of 1 as its j-th.
ThinkingAndStandalone(i, j) ==
    /\ i \in DOMAIN blob /\ j \in DOMAIN blob
    /\ blob[i] = [label |-> 2, body |-> "half"]
    /\ blob[j] = [label |-> 3, body |-> "one"]

\* C36: the quota recorded for a label is read from the sub-message after an
\* occurrence of exactly that label: with both 'Claude Sonnet 4.5
\* (Thinking)' and a standalone 'Claude Sonnet 4.5' in the buffer, in either
\* order, the entry for 'Claude Sonnet 4.5' has the standalone's fraction.
C36_QuotaOfExactLabel ==
    (/\ snapshot # None
     /\ Returned(snapshot)
     /\ \E i, j \in 1..MaxSegments : ThinkingAndStandalone(i, j)) =>
        \A e \in EntriesFor(labelNames[3]) : e.remainingFraction = Some(FloatOne)

\* C36, where the standalone label is the first thing in the buffer.
C36_ExactWhenStandaloneFirst ==
    (/\ snapshot # None
     /\ Returned(snapshot)
     /\ ThinkingAndStandalone(2, 1)) =>
        \A e \in EntriesFor(labelNames[3]) : e.remainingFraction = Some(FloatOne)

----------------------------------------------------------------------------
\* C37: for every buffer and offset the value returned by readVarintTuple
\* is non-negative, so that skipField never returns an offset before the
\* cursor it was given (-1, its answer for an unknown wire type, apart).
C37_VarintNonNegative ==
    /\ (result # None /\ result[1].fn = "readVarintTuple") =>
           result[1].ret.value >= 0
    /\ (result # None /\ result[1].fn = "skipField" /\ result[1].ret # -1) =>
           result[1].ret >= blob.offset

\* C37, for the varints of at most four bytes.
C37_ShortVarintNonNegative ==
    (/\ result # None
     /\ result[1].fn = "readVarintTuple"
     /\ result[1].ret.bytesRead <= 4) =>
        result[1].ret.value >= 0

----------------------------------------------------------------------------
\* isAuthenticated(): whether a usage summary is held.
IsAuthenticated == summaryData # Null

\* C38: isAuthenticated() reflects the fetch cycle completed last: when a
\* cycle ends because no credential was found, isAuthenticated() is false
\* from then on, also after an earlier successful fetch.
C38_NoCredentialNotAuthenticated == [][TokenMissing => ~IsAuthenticated']_vars

----------------------------------------------------------------------------
(***************************************************************************)
(* The dashboard server (src/CodingUsageWeb/server.js): the routes         *)
(* POST /api/usage and POST /api/ping.  A handler runs up to its next      *)
(* await in one step; the statements of different requests reach the       *)
(* database in any order.  The columns other than api_key are left out.    *)
(***************************************************************************)
MaxCalls == 2       \* requests received in a run

ApiKeys == {1, 2}
NoKey == 0
Routes == {"usage", "ping"}

\* What becomes of a request whose handler's promise is rejected: the
\* response is never sent, an error response is sent, or the process ends
\* on the unhandled rejection.  Which one depends on the versions of
\* express and node the server runs on.
Rejections == {"hangs", "error", "crash"}

ServerOnlyInit ==
    /\ ProviderInit
    /\ blob = <<>>
    /\ buffer = <<>>
    /\ snapshot = None
    /\ again = None
    /\ legacy = None
    /\ result = None
    /\ BackgroundInit
    /\ ServerInit
    /\ PackagingIdle

\* The rows of vibe_usage_api_keys with a given api_key.
RowsOf(key) == {i \in DOMAIN apiKeyRows : apiKeyRows[i].api_key = key}

\* api_key VARCHAR(64) UNIQUE NOT NULL: whether an INSERT of the key is accepted.
UniqueHolds(key) == RowsOf(key) = {}

At(c, pc) == [calls EXCEPT ![c].pc = pc]
Answer(c, response) == [calls EXCEPT ![c].pc = "done", ![c].response = response]

\* A request arrives: without client_token and X-Api-Key the handler answers
\* 401; otherwise it calls getOrCreateApiKeyRecord, which awaits its SELECT.
Arrive ==
    /\ Len(calls) < MaxCalls
    /\ \E route \in Routes, key \in ApiKeys \cup {NoKey} :
           calls' = Append(calls,
                           IF key = NoKey
                             THEN [route |-> route, key |-> key, pc |-> "done",
                                   response |-> "401"]
                             ELSE [route |-> route, key |-> key, pc |-> "select",
                                   response |-> "none"])
    /\ UNCHANGED <<apiKeyRows, usageReports, cvars, pvars, evars, kvars>>

\* getOrCreateApiKeyRecord: the SELECT has answered.  Without a record the
\* INSERT is issued; with one, the UPDATE of email and app_name if they
\* differ, and the function returns.
Select ==
    /\ \E c \in DOMAIN calls :
           /\ calls[c].pc = "select"
           /\ calls' = At(c, IF RowsOf(calls[c].key) = {} THEN "insert" ELSE "write")
    /\ UNCHANGED <<apiKeyRows, usageReports, cvars, pvars, evars, kvars>>

\* getOrCreateApiKeyRecord: the INSERT has been run and the row is stored;
\* the second SELECT is issued.
InsertAccepted ==
    /\ \E c \in DOMAIN calls :
           /\ calls[c].pc = "insert"
           /\ UniqueHolds(calls[c].key)
           /\ apiKeyRows' = Append(apiKeyRows, [api_key |-> calls[c].key])
           /\ calls' = At(c, "reselect")
    /\ UNCHANGED <<usageReports, cvars, pvars, evars, kvars>>

\* getOrCreateApiKeyRecord: the INSERT has been run and refused by the
\* UNIQUE constraint; run() rejects, no handler catches it.
InsertRefused ==
    /\ \E c \in DOMAIN calls, how \in Rejections :
           /\ calls[c].pc = "insert"
           /\ ~UniqueHolds(calls[c].key)
           /\ calls' =
                  IF how = "crash"
                    THEN [d \in DOMAIN calls |->
                             IF calls[d].pc = "done" THEN calls[d]
                             ELSE [calls[d] EXCEPT !.pc = "done", !.response = "reset"]]
                    ELSE Answer(c, IF how = "error" THEN "500" ELSE "never")
    /\ UNCHANGED <<apiKeyRows, usageReports, cvars, pvars, evars, kvars>>

\* getOrCreateApiKeyRecord: the second SELECT has answered; the function
\* returns and the handler issues its own statement.
Reselect ==
    /\ \E c \in DOMAIN calls :
           /\ calls[c].pc = "reselect"
           /\ calls' = At(c, "write")
    /\ UNCHANGED <<apiKeyRows, usageReports, cvars, pvars, evars, kvars>>

\* The handler's own statement has been run (the INSERT of a usage report,
\* or the UPDATE of last_ping_at and online); it answers { ok: true }.
Write ==
    /\ \E c \in DOMAIN calls :
           /\ calls[c].pc = "write"
           /\ usageReports' = IF calls[c].route = "usage"
                              THEN usageReports + 1 ELSE usageReports
           /\ calls' = Answer(c, "ok")
    /\ UNCHANGED <<apiKeyRows, cvars, pvars, evars, kvars>>

ServerNext ==
    \/ Arrive
    \/ Select
    \/ InsertAccepted
    \/ InsertRefused
    \/ Reselect
    \/ Write

ServerSpec == ServerOnlyInit /\ [][ServerNext]_vars

\* C39: two concurrent first requests (/api/usage or /api/ping) carrying the
\* same previously unseen API key both complete with a success response and
\* leave exactly one row for that key in vibe_usage_api_keys: no request
\* that carries a key ends otherwise than with { ok: true }, and once one
\* has ended the table holds one row with its key.
C39_ConcurrentFirstRequests ==
    \A c \in DOMAIN calls :
        (calls[c].key # NoKey /\ calls[c].pc = "done") =>
            /\ calls[c].response = "ok"
            /\ Cardinality(RowsOf(calls[c].key)) = 1

\* C39, as to the rows: the table never holds two rows with the same key,
\* and holds one for every request answered with { ok: true }.
C39_OneRowPerKey ==
    /\ \A key \in ApiKeys : Cardinality(RowsOf(key)) <= 1
    /\ \A c \in DOMAIN calls :
           calls[c].response = "ok" => Cardinality(RowsOf(calls[c].key)) = 1

----------------------------------------------------------------------------
(***************************************************************************)
(* The packaging script (src/CodingUsage/src/cursor/cursorApiService.ts,   *)
(* lines 1246-1357).  The script is synchronous from its first line to the *)
(* end of its finally block, execSync included, so a signal handler can    *)
(* run only after that; process.exit() ends the process where it is        *)
(* called.                                                                 *)
(***************************************************************************)
validTargets == {"all", "cursor", "trae", "antigravity"}
Arguments == validTargets \cup {"other"}

\* The package.json of the repository, as committed.
Sources == {"v1", "v2"}
Committed(source) == [source |-> source, name |-> "coding-usage", form |-> "committed"]

\* Lines 1299-1335: the metadata for the target, written with JSON.stringify.
Modified(content, target) ==
    [source |-> content.source,
     name |-> IF target = "all" THEN content.name ELSE target,
     form |-> "stringified"]

\* The script has not run, or an earlier run for some target ended without
\* restoring package.json.
PackagingInit ==
    /\ \E source \in Sources : original = Committed(source)
    /\ \/ pkgJson = original /\ pkgBackup = None
       \/ \E target \in validTargets :
              /\ pkgJson = Modified(original, target)
              /\ pkgBackup = Some(original)
    /\ script = NotStarted

PackagingOnlyInit ==
    /\ ProviderInit
    /\ blob = <<>>
    /\ buffer = <<>>
    /\ snapshot = None
    /\ again = None
    /\ legacy = None
    /\ result = None
    /\ BackgroundInit
    /\ ServerInit
    /\ PackagingInit

\* restorePackageJson(): package.json after the call.
Restored(pkg, backup) == IF backup # None THEN backup[1] ELSE pkg

Goes(pc) == [script EXCEPT !.pc = pc]
Exits(via) == [script EXCEPT !.pc = "exited", !.via = via]

\* The script is started with a target: lines 1252-1258; an invalid one ends
\* the process at once.
Begin ==
    /\ script.pc = "idle"
    /\ \E target \in Arguments :
           script' = IF target \in validTargets
                       THEN [script EXCEPT !.pc = "try", !.target = target]
                       ELSE [script EXCEPT !.pc = "exited", !.target = target,
                                           !.via = "invalid"]
    /\ UNCHANGED <<pkgJson, pkgBackup, original, cvars, pvars, evars, svars>>

\* Lines 1288-1294: a leftover backup is copied back, then package.json is
\* copied to the backup.
Backup ==
    /\ script.pc = "try"
    /\ pkgJson' = Restored(pkgJson, pkgBackup)
    /\ pkgBackup' = Some(pkgJson')
    /\ script' = Goes("modify")
    /\ UNCHANGED <<original, cvars, pvars, evars, svars>>

\* Lines 1296-1336: package.json is parsed, changed and written.
Modify ==
    /\ script.pc = "modify"
    /\ pkgJson' = Modified(pkgJson, script.target)
    /\ script' = Goes("package")
    /\ UNCHANGED <<pkgBackup, original, cvars, pvars, evars, svars>>

\* Lines 1296-1335: parsing, changing or writing package.json throws.
ModifyThrows ==
    /\ script.pc = "modify"
    /\ script' = Goes("catch")
    /\ UNCHANGED <<pkgJson, pkgBackup, original, cvars, pvars, evars, svars>>

\* Lines 1343-1349: vsce package has run and succeeded.
Package ==
    /\ script.pc = "package"
    /\ script' = Goes("finally")
    /\ UNCHANGED <<pkgJson, pkgBackup, original, cvars, pvars, evars, svars>>

\* Lines 1343-1347: execSync throws: vsce failed, or was ended by the
\* signal the terminal sent to it too.
PackageThrows ==
    /\ script.pc = "package"
    /\ script' = Goes("catch")
    /\ UNCHANGED <<pkgJson, pkgBackup, original, cvars, pvars, evars, svars>>

\* Lines 1351-1353: the catch block calls process.exit(1).
Catch ==
    /\ script.pc = "catch"
    /\ script' = Exits("catch")
    /\ UNCHANGED <<pkgJson, pkgBackup, original, cvars, pvars, evars, svars>>

\* Lines 1354-1356: the finally block, reached from the end of the try
\* block, calls restorePackageJson().
Finally ==
    /\ script.pc = "finally"
    /\ pkgJson' = Restored(pkgJson, pkgBackup)
    /\ pkgBackup' = None
    /\ script' = Goes("ended")
    /\ UNCHANGED <<original, cvars, pvars, evars, svars>>

\* SIGINT reaches the process while the script runs; the handler waits for
\* the event loop.
Sigint ==
    /\ script.pc \in {"try", "modify", "package", "catch", "finally"}
    /\ ~script.sigint
    /\ script' = [script EXCEPT !.sigint = TRUE]
    /\ UNCHANGED <<pkgJson, pkgBackup, original, cvars, pvars, evars, svars>>

\* Lines 1274-1277: the script has ended and the SIGINT handler runs.
SigintHandler ==
    /\ script.pc = "ended"
    /\ script.sigint
    /\ pkgJson' = Restored(pkgJson, pkgBackup)
    /\ pkgBackup' = None
    /\ script' = Exits("sigint")
    /\ UNCHANGED <<original, cvars, pvars, evars, svars>>

\* The script has ended with nothing pending: the process ends.
ProcessEnds ==
    /\ script.pc = "ended"
    /\ ~script.sigint
    /\ script' = Exits("end")
    /\ UNCHANGED <<pkgJson, pkgBackup, original, cvars, pvars, evars, svars>>

PackagingNext ==
    \/ Begin
    \/ Backup
    \/ Modify
    \/ ModifyThrows
    \/ Package
    \/ PackageThrows
    \/ Catch
    \/ Finally
    \/ Sigint
    \/ SigintHandler
    \/ ProcessEnds

PackagingSpec == PackagingOnlyInit /\ [][PackagingNext]_vars

\* package.json is as committed and there is no package.json.backup.
Clean == pkgJson = original /\ pkgBackup = None

\* C40: however the packaging script ends (success, an error thrown while
\* modifying or packaging, SIGINT, or a start that finds a leftover backup),
\* package.json ends with its original content and package.json.backup no
\* longer exists.
C40_PackageJsonRestored == script.pc = "exited" => Clean

\* C40, for the runs that end by the finally block or the SIGINT handler.
C40_RestoredUnlessExitInCatch ==
    (script.pc = "exited" /\ script.via \in {"end", "sigint"}) => Clean
====
